---- MODULE Spec2Model ----
(***************************************************************************)
(* Linera Game Station: the hub contract (contract.rs), the room-chain     *)
(* contract (room_contract.rs) and the cross-chain messages between them.  *)
(*                                                                         *)
(* Handlers are operators from a state (and the handler's inputs) to a     *)
(* result [state, msgs, opened]: the state the handler leaves, the         *)
(* messages it hands to prepare_message(..).send_to(..) in order, and the  *)
(* chains it opened.  The actions at the end apply them to the variables.  *)
(***************************************************************************)
EXTENDS Integers, Sequences, FiniteSets, TLC

VARIABLES
    state,       \* GameStationState of the hub (main chain)
    room_state,  \* RoomChainState of every opened room chain, by chain id
    inbox        \* messages sent and not yet executed, by destination chain

vars == <<state, room_state, inbox>>

(***************************************************************************)
(* Maps (MapView<K, V>) are functions whose domain is the set of keys.     *)
(***************************************************************************)
EmptyMap == [k \in {} |-> 0]

HasKey(m, k) == k \in DOMAIN m

Put(m, k, v) == [x \in (DOMAIN m) \cup {k} |-> IF x = k THEN v ELSE m[x]]

Remove(m, k) == [x \in (DOMAIN m) \ {k} |-> m[x]]

\* Vec::contains
Contains(seq, e) == \E i \in 1..Len(seq) : seq[i] = e

\* Vec::retain(|p| p != e)
RECURSIVE RetainNot(_, _)
RetainNot(seq, e) ==
    IF seq = <<>> THEN <<>>
    ELSE IF Head(seq) = e THEN RetainNot(Tail(seq), e)
         ELSE <<Head(seq)>> \o RetainNot(Tail(seq), e)

\* `len() as u8`
AsU8(n) == n % 256

(***************************************************************************)
(* Chains.  The hub runs on MainChain; open_chain returns a chain id not   *)
(* used before, here the next natural number.                              *)
(***************************************************************************)
MainChain == 0

OpenedChains == DOMAIN room_state

open_chain(opened) == Cardinality(opened) + 1

\* format!("{}", chain_id) and ChainId::from_str: a chain id prints as a
\* non-empty string and parses back; any other string fails to parse.
ChainIdToString(c) == "chain-" \o ToString(c)

\* the Result of ChainId::from_str: {c} for Ok(c), {} for Err
ChainIdFromStr(str, known) == {c \in known : ChainIdToString(c) = str}

(***************************************************************************)
(* lib.rs: game types, room status, room ids.                              *)
(***************************************************************************)
GameTypes == {"Snake", "TicTacToe", "SnakeLadders", "Uno"}

\* format!("{:?}", game_type).to_lowercase()
ToLowercase(game_type) ==
    CASE game_type = "Snake" -> "snake"
      [] game_type = "TicTacToe" -> "tictactoe"
      [] game_type = "SnakeLadders" -> "snakeladders"
      [] game_type = "Uno" -> "uno"

\* a room id that keeps the case of the game type's name
RoomIdVerbatim(game_type, counter) ==
    "room-" \o game_type \o "-" \o ToString(counter)

\* format!("room-{}-{}", game_type_str, room_counter)
RoomId(game_type, counter) ==
    "room-" \o ToLowercase(game_type) \o "-" \o ToString(counter)

Waiting == "Waiting"
InProgress == "InProgress"
Finished == "Finished"

None == "None"

\* authenticated_signer() is None for an unsigned operation
Anonymous == "anonymous"

(***************************************************************************)
(* Results of handlers.                                                    *)
(***************************************************************************)
Result(s, msgs) == [state |-> s, msgs |-> msgs, opened |-> {}]

SendTo(chain, message) == [dest |-> chain, msg |-> message]

(***************************************************************************)
(* Rule engines.  A move payload is the list of its comma-separated parts; *)
(* a part is a natural number when it parses as one; a part that does not  *)
(* parse is a negative number, as the part "-1" is.                        *)
(* The tic-tac-toe state is the list of the board's lines, each            *)
(* a list of cells, and the empty string is the empty list.  The snakes-   *)
(* and-ladders state "p:pos,..." is the map it lists (the code rebuilds it *)
(* from a HashMap, so the order of its entries carries nothing).           *)
(***************************************************************************)
EmptyState == <<>>

IsEmptyState(current_state) == DOMAIN current_state = {}

Parses(part) == part \in Nat

NewBoard == [y \in 1..3 |-> [x \in 1..3 |-> "-"]]

\* a move that writes its mark over whatever the cell holds
PlaceMarkOverwrites(current_state, x, y, player, players) ==
    LET board == IF IsEmptyState(current_state) THEN NewBoard ELSE current_state
        symbol == IF player = players[1] THEN "X" ELSE "O"
    IN  [board EXCEPT ![y + 1][x + 1] = symbol]

\* players[0] is 'X', everyone else 'O'; an occupied cell is kept
PlaceMark(current_state, x, y, player, players) ==
    LET board == IF IsEmptyState(current_state) THEN NewBoard ELSE current_state
        symbol == IF player = players[1] THEN "X" ELSE "O"
    IN  IF board[y + 1][x + 1] = "-"
        THEN [board EXCEPT ![y + 1][x + 1] = symbol]
        ELSE board

\* GameStationContract::process_tictactoe_move: a part that does not parse is 0
process_tictactoe_move(current_state, move_data, player, players) ==
    IF Len(move_data) # 2 THEN current_state
    ELSE LET x == IF Parses(move_data[1]) THEN move_data[1] ELSE 0
             y == IF Parses(move_data[2]) THEN move_data[2] ELSE 0
         IN  IF x >= 3 \/ y >= 3 THEN current_state
             ELSE PlaceMark(current_state, x, y, player, players)

\* RoomContract::process_tictactoe_move: a part that does not parse rejects the move
room_process_tictactoe_move(current_state, move_data, player, players) ==
    IF Len(move_data) # 2 THEN current_state
    ELSE IF ~Parses(move_data[1]) THEN current_state
    ELSE IF ~Parses(move_data[2]) THEN current_state
    ELSE IF move_data[1] >= 3 \/ move_data[2] >= 3 THEN current_state
    ELSE PlaceMark(current_state, move_data[1], move_data[2], player, players)

\* a win check that does not look at the diagonal from the top right corner
WinWithoutAntiDiagonal(board) ==
    IF IsEmptyState(board) THEN FALSE
    ELSE IF Len(board) # 3 THEN FALSE
    ELSE \/ \E y \in 1..3 :
               board[y][1] # "-" /\ board[y][1] = board[y][2] /\ board[y][2] = board[y][3]
         \/ \E x \in 1..3 :
               board[1][x] # "-" /\ board[1][x] = board[2][x] /\ board[2][x] = board[3][x]
         \/ (board[1][1] # "-" /\ board[1][1] = board[2][2] /\ board[2][2] = board[3][3])

\* check_tictactoe_win, the same on the hub and on the room chain
check_tictactoe_win(board) ==
    IF IsEmptyState(board) THEN FALSE
    ELSE IF Len(board) # 3 THEN FALSE
    ELSE \/ \E y \in 1..3 :
               board[y][1] # "-" /\ board[y][1] = board[y][2] /\ board[y][2] = board[y][3]
         \/ \E x \in 1..3 :
               board[1][x] # "-" /\ board[1][x] = board[2][x] /\ board[2][x] = board[3][x]
         \/ (board[1][1] # "-" /\ board[1][1] = board[2][2] /\ board[2][2] = board[3][3])
         \/ (board[1][3] # "-" /\ board[1][3] = board[2][2] /\ board[2][2] = board[3][1])

\* a table without the ladder from 80 to 100
NoLastLadder(pos) ==
    CASE pos = 16 -> 6   [] pos = 47 -> 26  [] pos = 49 -> 11  [] pos = 56 -> 53
      [] pos = 62 -> 19  [] pos = 64 -> 60  [] pos = 87 -> 24  [] pos = 93 -> 73
      [] pos = 95 -> 75  [] pos = 98 -> 78
      [] pos = 1 -> 38   [] pos = 4 -> 14   [] pos = 9 -> 31   [] pos = 21 -> 42
      [] pos = 28 -> 84  [] pos = 36 -> 44  [] pos = 51 -> 67  [] pos = 71 -> 91
      [] OTHER -> pos

\* the match in process_snakeladders_move: snakes, then ladders
SnakeOrLadder(pos) ==
    CASE pos = 16 -> 6   [] pos = 47 -> 26  [] pos = 49 -> 11  [] pos = 56 -> 53
      [] pos = 62 -> 19  [] pos = 64 -> 60  [] pos = 87 -> 24  [] pos = 93 -> 73
      [] pos = 95 -> 75  [] pos = 98 -> 78
      [] pos = 1 -> 38   [] pos = 4 -> 14   [] pos = 9 -> 31   [] pos = 21 -> 42
      [] pos = 28 -> 84  [] pos = 36 -> 44  [] pos = 51 -> 67  [] pos = 71 -> 91
      [] pos = 80 -> 100
      [] OTHER -> pos

process_snakeladders_move(current_state, move_data, player) ==
    LET dice == IF Len(move_data) = 1 /\ Parses(move_data[1]) THEN move_data[1] ELSE 0
    IN  IF dice < 1 \/ dice > 6 THEN current_state
        ELSE LET current_pos == IF HasKey(current_state, player)
                                THEN current_state[player] ELSE 0
                 landed == SnakeOrLadder(current_pos + dice)
                 new_pos == IF landed > 100 THEN current_pos ELSE landed
             IN  Put(current_state, player, new_pos)

check_snakeladders_win(current_state, player) ==
    HasKey(current_state, player) /\ current_state[player] >= 100

(***************************************************************************)
(* Profiles and leaderboards (contract.rs 766-816).                        *)
(***************************************************************************)
DefaultStats ==
    [games_played |-> 0, wins |-> 0, losses |-> 0, high_score |-> 0, total_score |-> 0]

\* format!("Player{}", &address[..8])
DefaultUsername(address) == <<"Player", address>>

\* [state, profile]: the stored profile, or a fresh one stored and counted
get_or_create_profile(s, address, sys_time) ==
    IF HasKey(s.users, address)
    THEN [state |-> s, profile |-> s.users[address]]
    ELSE LET profile == [address |-> address,
                         username |-> DefaultUsername(address),
                         avatar_id |-> 0,
                         level |-> 1,
                         xp |-> 0,
                         snake_stats |-> DefaultStats,
                         tictactoe_stats |-> DefaultStats,
                         snakeladders_stats |-> DefaultStats,
                         uno_stats |-> DefaultStats,
                         joined_at |-> sys_time]
         IN  [state |-> [s EXCEPT !.users = Put(s.users, address, profile),
                                  !.total_players = s.total_players + 1],
              profile |-> profile]

\* a leveling that asks 1000 experience for every level
RECURSIVE FlatLevelUp(_)
FlatLevelUp(profile) ==
    IF profile.xp >= 1000
    THEN FlatLevelUp([profile EXCEPT !.xp = profile.xp - 1000,
                                     !.level = profile.level + 1])
    ELSE profile

\* a leveling that climbs one level at most
LevelUpOnce(profile) ==
    IF profile.xp >= profile.level * 1000
    THEN [profile EXCEPT !.xp = profile.xp - profile.level * 1000,
                         !.level = profile.level + 1]
    ELSE profile

\* while profile.xp >= level * 1000 { xp -= level * 1000; level += 1 }
RECURSIVE LevelUp(_)
LevelUp(profile) ==
    IF profile.xp >= profile.level * 1000
    THEN LevelUp([profile EXCEPT !.xp = profile.xp - profile.level * 1000,
                                 !.level = profile.level + 1])
    ELSE profile

\* leaderboards are truncated to this many entries
LeaderboardCap == 100

\* the entries of the highest score in their order, then those of the next
RECURSIVE ByScoreDesc(_, _)
ByScoreDesc(entries, scores) ==
    IF scores = {} THEN <<>>
    ELSE LET top == CHOOSE v \in scores : \A w \in scores : w <= v
         IN  SelectSeq(entries, LAMBDA e : e.score = top)
                 \o ByScoreDesc(entries, scores \ {top})

\* the stable sort_by(|a, b| b.score.cmp(&a.score))
SortByScoreDesc(entries) ==
    ByScoreDesc(entries, {entries[i].score : i \in 1..Len(entries)})

\* an update that never truncates the list
LeaderboardKeepAll(s, game_key, player_id, player_name, score) ==
    LET leaderboard == IF HasKey(s.leaderboards, game_key)
                       THEN s.leaderboards[game_key] ELSE <<>>
        entry == [player_id |-> player_id, player_name |-> player_name,
                  score |-> score, rank |-> 0]
        updated == IF \E i \in 1..Len(leaderboard) : leaderboard[i].player_id = player_id
                   THEN LET i == CHOOSE j \in 1..Len(leaderboard) :
                                     /\ leaderboard[j].player_id = player_id
                                     /\ \A k \in 1..(j - 1) :
                                            leaderboard[k].player_id # player_id
                        IN  IF score > leaderboard[i].score
                            THEN [leaderboard EXCEPT ![i] = entry]
                            ELSE leaderboard
                   ELSE Append(leaderboard, entry)
        sorted == SortByScoreDesc(updated)
        ranked == [i \in 1..Len(sorted) |-> [sorted[i] EXCEPT !.rank = i]]
    IN  [s EXCEPT !.leaderboards = Put(s.leaderboards, game_key, ranked)]

\* an update that replaces the entry of a listed player by any new score
LeaderboardReplaceAlways(s, game_key, player_id, player_name, score) ==
    LET leaderboard == IF HasKey(s.leaderboards, game_key)
                       THEN s.leaderboards[game_key] ELSE <<>>
        entry == [player_id |-> player_id, player_name |-> player_name,
                  score |-> score, rank |-> 0]
        updated == IF \E i \in 1..Len(leaderboard) : leaderboard[i].player_id = player_id
                   THEN LET i == CHOOSE j \in 1..Len(leaderboard) :
                                     /\ leaderboard[j].player_id = player_id
                                     /\ \A k \in 1..(j - 1) :
                                            leaderboard[k].player_id # player_id
                        IN  [leaderboard EXCEPT ![i] = entry]
                   ELSE Append(leaderboard, entry)
        sorted == SortByScoreDesc(updated)
        ranked == [i \in 1..Len(sorted) |-> [sorted[i] EXCEPT !.rank = i]]
        kept == SubSeq(ranked, 1, IF Len(ranked) < LeaderboardCap
                                  THEN Len(ranked) ELSE LeaderboardCap)
    IN  [s EXCEPT !.leaderboards = Put(s.leaderboards, game_key, kept)]

update_leaderboard(s, game_key, player_id, player_name, score) ==
    LET leaderboard == IF HasKey(s.leaderboards, game_key)
                       THEN s.leaderboards[game_key] ELSE <<>>
        entry == [player_id |-> player_id, player_name |-> player_name,
                  score |-> score, rank |-> 0]
        updated == IF \E i \in 1..Len(leaderboard) : leaderboard[i].player_id = player_id
                   THEN LET i == CHOOSE j \in 1..Len(leaderboard) :
                                     /\ leaderboard[j].player_id = player_id
                                     /\ \A k \in 1..(j - 1) :
                                            leaderboard[k].player_id # player_id
                        IN  IF score > leaderboard[i].score
                            THEN [leaderboard EXCEPT ![i] = entry]
                            ELSE leaderboard
                   ELSE Append(leaderboard, entry)
        sorted == SortByScoreDesc(updated)
        ranked == [i \in 1..Len(sorted) |-> [sorted[i] EXCEPT !.rank = i]]
        kept == SubSeq(ranked, 1, IF Len(ranked) < LeaderboardCap
                                  THEN Len(ranked) ELSE LeaderboardCap)
    IN  [s EXCEPT !.leaderboards = Put(s.leaderboards, game_key, kept)]

\* an index from which nothing is taken
KeepInActiveRooms(s, room_id) == s

remove_from_active_rooms(s, room_id) ==
    [s EXCEPT !.active_room_ids = RetainNot(s.active_room_ids, room_id)]

(***************************************************************************)
(* Hub: room handlers (contract.rs 415-598).                               *)
(***************************************************************************)
handle_create_room(s, owner, game_type, max_players, entry_fee, game_mode, timestamp, opened) ==
    LET room_counter == s.room_counter
        room_id == RoomId(game_type, room_counter)
        room_chain_id == open_chain(opened)
        creator_str == owner
        room == [id |-> room_id,
                 game_type |-> game_type,
                 creator |-> creator_str,
                 players |-> <<creator_str>>,
                 max_players |-> max_players,
                 entry_fee |-> entry_fee,
                 status |-> Waiting,
                 current_state |-> EmptyState,
                 winner |-> None,
                 created_at |-> timestamp,
                 last_move_time |-> timestamp,
                 game_mode |-> game_mode]
        init_msg == [type |-> "InitializeRoom",
                     room_id |-> room_id,
                     game_type |-> game_type,
                     creator |-> creator_str,
                     max_players |-> max_players,
                     creator_chain |-> MainChain]
    IN  [state |-> [s EXCEPT !.room_chains = Put(s.room_chains, room_id, room_chain_id),
                             !.chain_to_room = Put(s.chain_to_room, room_chain_id, room_id),
                             !.rooms = Put(s.rooms, room_id, room),
                             !.active_room_ids = Append(s.active_room_ids, room_id),
                             !.room_counter = room_counter + 1],
         msgs |-> <<SendTo(room_chain_id, init_msg)>>,
         opened |-> {room_chain_id}]

\* a mirror update that starts the match only when the room is over capacity
JoinMirrorLateStart(s, owner, room_id) ==
    IF HasKey(s.rooms, room_id)
    THEN LET room == s.rooms[room_id]
         IN  IF /\ room.status = Waiting
                /\ ~Contains(room.players, owner)
                /\ AsU8(Len(room.players)) < room.max_players
             THEN LET players == Append(room.players, owner)
                      joined == [room EXCEPT
                                   !.players = players,
                                   !.status = IF AsU8(Len(players)) > room.max_players
                                              THEN InProgress ELSE room.status]
                  IN  [s EXCEPT !.rooms = Put(s.rooms, room_id, joined)]
             ELSE s
    ELSE s

\* the mirror update of handle_join_room (503-515)
JoinMirror(s, owner, room_id) ==
    IF HasKey(s.rooms, room_id)
    THEN LET room == s.rooms[room_id]
         IN  IF /\ room.status = Waiting
                /\ ~Contains(room.players, owner)
                /\ AsU8(Len(room.players)) < room.max_players
             THEN LET players == Append(room.players, owner)
                      joined == [room EXCEPT
                                   !.players = players,
                                   !.status = IF AsU8(Len(players)) >= room.max_players
                                              THEN InProgress ELSE room.status]
                  IN  [s EXCEPT !.rooms = Put(s.rooms, room_id, joined)]
             ELSE s
    ELSE s

\* a forwarding that depends on the mirror: only an accepted join is forwarded
JoinForwardIfAccepted(s, owner, room_id) ==
    IF HasKey(s.room_chains, room_id) /\ JoinMirror(s, owner, room_id) # s
    THEN <<SendTo(s.room_chains[room_id],
                  [type |-> "PlayerJoiningRoom", room_id |-> room_id, player |-> owner])>>
    ELSE <<>>

\* the forwarding of handle_join_room (518-529)
JoinForward(s, owner, room_id) ==
    IF HasKey(s.room_chains, room_id)
    THEN <<SendTo(s.room_chains[room_id],
                  [type |-> "PlayerJoiningRoom", room_id |-> room_id, player |-> owner])>>
    ELSE <<>>

handle_join_room(s, owner, room_id, timestamp) ==
    Result(JoinMirror(s, owner, room_id), JoinForward(s, owner, room_id))

handle_leave_room(s, owner, room_id) ==
    IF HasKey(s.rooms, room_id) /\ s.rooms[room_id].status = Waiting
    THEN LET room == s.rooms[room_id]
             players == RetainNot(room.players, owner)
         IN  IF players = <<>>
             THEN Result(remove_from_active_rooms(
                             [s EXCEPT !.rooms = Remove(s.rooms, room_id)], room_id), <<>>)
             ELSE Result([s EXCEPT !.rooms =
                             Put(s.rooms, room_id, [room EXCEPT !.players = players])], <<>>)
    ELSE Result(s, <<>>)

\* the fallback of handle_make_move (562-588): the move is applied on the hub
MoveOnHub(s, owner, room_id, move_data, timestamp) ==
    IF /\ HasKey(s.rooms, room_id)
       /\ s.rooms[room_id].status = InProgress
       /\ Contains(s.rooms[room_id].players, owner)
    THEN LET room == s.rooms[room_id]
             new_state ==
                 CASE room.game_type = "TicTacToe" ->
                          process_tictactoe_move(room.current_state, move_data, owner, room.players)
                   [] room.game_type = "SnakeLadders" ->
                          process_snakeladders_move(room.current_state, move_data, owner)
                   [] OTHER -> room.current_state
             game_won ==
                 CASE room.game_type = "TicTacToe" -> check_tictactoe_win(new_state)
                   [] room.game_type = "SnakeLadders" -> check_snakeladders_win(new_state, owner)
                   [] OTHER -> FALSE
             moved == [room EXCEPT !.last_move_time = timestamp,
                                   !.current_state = new_state]
             ended == [moved EXCEPT !.status = Finished, !.winner = owner]
         IN  IF game_won
             THEN [remove_from_active_rooms(s, room_id) EXCEPT
                      !.rooms = Put(s.rooms, room_id, ended)]
             ELSE [s EXCEPT !.rooms = Put(s.rooms, room_id, moved)]
    ELSE s

\* a MakeMove that is forwarded and also applied to the mirror
MoveForwardedAndApplied(s, owner, room_id, move_data, timestamp) ==
    IF HasKey(s.room_chains, room_id)
    THEN Result(MoveOnHub(s, owner, room_id, move_data, timestamp),
                <<SendTo(s.room_chains[room_id],
                         [type |-> "ProcessMove", room_id |-> room_id,
                          player |-> owner, move_data |-> move_data])>>)
    ELSE Result(MoveOnHub(s, owner, room_id, move_data, timestamp), <<>>)

handle_make_move(s, owner, room_id, move_data, timestamp) ==
    IF HasKey(s.room_chains, room_id)
    THEN Result(s, <<SendTo(s.room_chains[room_id],
                            [type |-> "ProcessMove", room_id |-> room_id,
                             player |-> owner, move_data |-> move_data])>>)
    ELSE Result(MoveOnHub(s, owner, room_id, move_data, timestamp), <<>>)

\* a CloseRoom that also drops the room's shard mapping
CloseAndUnmap(s, room_id) ==
    IF HasKey(s.rooms, room_id)
    THEN Result(remove_from_active_rooms(
                    [s EXCEPT !.rooms = Put(s.rooms, room_id,
                                            [s.rooms[room_id] EXCEPT !.status = Finished]),
                              !.room_chains = Remove(s.room_chains, room_id)],
                    room_id), <<>>)
    ELSE Result(s, <<>>)

\* a CloseRoom that leaves the room in active_room_ids
CloseKeepsActive(s, room_id) ==
    IF HasKey(s.rooms, room_id)
    THEN Result([s EXCEPT !.rooms = Put(s.rooms, room_id,
                                        [s.rooms[room_id] EXCEPT !.status = Finished])],
                <<>>)
    ELSE Result(s, <<>>)

handle_close_room(s, room_id) ==
    IF HasKey(s.rooms, room_id)
    THEN Result(remove_from_active_rooms(
                    [s EXCEPT !.rooms = Put(s.rooms, room_id,
                                            [s.rooms[room_id] EXCEPT !.status = Finished])],
                    room_id), <<>>)
    ELSE Result(s, <<>>)

(***************************************************************************)
(* Hub: result handlers (contract.rs 292-406).                             *)
(***************************************************************************)
\* matches!(game_mode, GameMode::Solo | GameMode::Multiplayer)
GameModes == {"Solo", "Practice", "Multiplayer"}

Counted(game_mode) == game_mode \in {"Solo", "Multiplayer"}

\* the tail of every result handler: store the profile, update the
\* leaderboard of the key, count the game
StoreResult(s, owner, profile, game_key, score) ==
    LET stored == [s EXCEPT !.users = Put(s.users, owner, profile)]
        listed == update_leaderboard(stored, game_key, owner, profile.username, score)
    IN  [listed EXCEPT !.total_games = listed.total_games + 1]

handle_submit_snake_score(s, owner, score, game_mode, timestamp) ==
    LET got == get_or_create_profile(s, owner, timestamp)
        p == got.profile
        counted == [p EXCEPT !.snake_stats.high_score = IF score > @ THEN score ELSE @,
                             !.snake_stats.games_played = @ + 1,
                             !.snake_stats.total_score = @ + score,
                             !.xp = @ + (score \div 10)]
    IN  IF Counted(game_mode)
        THEN Result(StoreResult(got.state, owner, LevelUp(counted), "snake_global", score),
                    <<>>)
        ELSE Result(got.state, <<>>)

handle_submit_tictactoe_result(s, owner, won, game_mode, timestamp) ==
    LET got == get_or_create_profile(s, owner, timestamp)
        p == got.profile
        counted == [p EXCEPT !.tictactoe_stats.games_played = @ + 1,
                             !.tictactoe_stats.wins = IF won THEN @ + 1 ELSE @,
                             !.tictactoe_stats.losses = IF won THEN @ ELSE @ + 1,
                             !.xp = IF won THEN @ + 50 ELSE @ + 10]
    IN  IF Counted(game_mode)
        THEN Result(StoreResult(got.state, owner, LevelUp(counted), "tictactoe_global",
                                counted.tictactoe_stats.wins), <<>>)
        ELSE Result(got.state, <<>>)

handle_submit_snakeladders_result(s, owner, won, game_mode, timestamp) ==
    LET got == get_or_create_profile(s, owner, timestamp)
        p == got.profile
        counted == [p EXCEPT !.snakeladders_stats.games_played = @ + 1,
                             !.snakeladders_stats.wins = IF won THEN @ + 1 ELSE @,
                             !.snakeladders_stats.losses = IF won THEN @ ELSE @ + 1,
                             !.xp = IF won THEN @ + 100 ELSE @ + 20]
    IN  IF Counted(game_mode)
        THEN Result(StoreResult(got.state, owner, LevelUp(counted), "snakeladders_global",
                                counted.snakeladders_stats.wins), <<>>)
        ELSE Result(got.state, <<>>)

handle_submit_uno_result(s, owner, won, game_mode, timestamp) ==
    LET got == get_or_create_profile(s, owner, timestamp)
        p == got.profile
        counted == [p EXCEPT !.uno_stats.games_played = @ + 1,
                             !.uno_stats.wins = IF won THEN @ + 1 ELSE @,
                             !.uno_stats.losses = IF won THEN @ ELSE @ + 1,
                             !.xp = IF won THEN @ + 80 ELSE @ + 15]
    IN  IF Counted(game_mode)
        THEN Result(StoreResult(got.state, owner, LevelUp(counted), "uno_global",
                                counted.uno_stats.wins), <<>>)
        ELSE Result(got.state, <<>>)

(***************************************************************************)
(* Hub: tournaments (contract.rs 600-674, 926-937).                        *)
(***************************************************************************)
Registration == "Registration"
Completed == "Completed"

\* format!("tournament-{}", tournament_counter)
TournamentId(tournament_counter) == "tournament-" \o ToString(tournament_counter)

\* format!("{}-{}", bracket.player1, bracket.player2)
MatchKey(bracket) == bracket.player1 \o "-" \o bracket.player2

\* brackets of every participant with the next one
OverlappingBrackets(participants) ==
    [k \in 1..(Len(participants) - 1) |->
        [player1 |-> participants[k], player2 |-> participants[k + 1]]]

\* for i in (0..len).step_by(2) { if i + 1 < len { push (p[i], p[i + 1]) } }
generate_tournament_brackets(participants) ==
    [k \in 1..(Len(participants) \div 2) |->
        [player1 |-> participants[2 * k - 1], player2 |-> participants[2 * k]]]

handle_create_tournament(s, owner, name, game_type, max_players, timestamp) ==
    LET tournament_id == TournamentId(s.tournament_counter)
        tournament == [id |-> tournament_id,
                       name |-> name,
                       game_type |-> game_type,
                       creator |-> owner,
                       participants |-> <<>>,
                       max_players |-> max_players,
                       status |-> Registration,
                       current_round |-> 0,
                       brackets |-> <<>>,
                       created_at |-> timestamp]
    IN  Result([s EXCEPT !.tournaments = Put(s.tournaments, tournament_id, tournament),
                         !.tournament_counter = s.tournament_counter + 1,
                         !.active_tournament_ids = Append(s.active_tournament_ids,
                                                          tournament_id)],
               <<>>)

\* a JoinTournament that does not look for the submitter among the participants
JoinTournamentAgain(s, owner, tournament_id) ==
    IF HasKey(s.tournaments, tournament_id)
    THEN LET tournament == s.tournaments[tournament_id]
         IN  IF /\ tournament.status = Registration
                /\ AsU8(Len(tournament.participants)) < tournament.max_players
             THEN Result([s EXCEPT !.tournaments = Put(s.tournaments, tournament_id,
                             [tournament EXCEPT !.participants = Append(@, owner)])], <<>>)
             ELSE Result(s, <<>>)
    ELSE Result(s, <<>>)

handle_join_tournament(s, owner, tournament_id) ==
    IF HasKey(s.tournaments, tournament_id)
    THEN LET tournament == s.tournaments[tournament_id]
         IN  IF /\ tournament.status = Registration
                /\ ~Contains(tournament.participants, owner)
                /\ AsU8(Len(tournament.participants)) < tournament.max_players
             THEN Result([s EXCEPT !.tournaments = Put(s.tournaments, tournament_id,
                             [tournament EXCEPT !.participants = Append(@, owner)])], <<>>)
             ELSE Result(s, <<>>)
    ELSE Result(s, <<>>)

handle_start_tournament(s, tournament_id) ==
    IF HasKey(s.tournaments, tournament_id)
    THEN LET tournament == s.tournaments[tournament_id]
         IN  IF tournament.status = Registration /\ Len(tournament.participants) >= 2
             THEN Result([s EXCEPT !.tournaments = Put(s.tournaments, tournament_id,
                             [tournament EXCEPT
                                 !.status = InProgress,
                                 !.current_round = 1,
                                 !.brackets =
                                     generate_tournament_brackets(tournament.participants)])],
                         <<>>)
             ELSE Result(s, <<>>)
    ELSE Result(s, <<>>)

\* the closure of retain: a bracket with another key stays and its player1
\* is pushed to winners
RECURSIVE KeptWinners(_, _)
KeptWinners(brackets, match_id) ==
    IF brackets = <<>> THEN <<>>
    ELSE IF MatchKey(Head(brackets)) = match_id
         THEN KeptWinners(Tail(brackets), match_id)
         ELSE <<Head(brackets).player1>> \o KeptWinners(Tail(brackets), match_id)

handle_advance_tournament(s, tournament_id, match_id, winner) ==
    IF HasKey(s.tournaments, tournament_id)
    THEN LET tournament == s.tournaments[tournament_id]
             winners == <<winner>> \o KeptWinners(tournament.brackets, match_id)
             brackets == SelectSeq(tournament.brackets,
                                   LAMBDA bracket : MatchKey(bracket) # match_id)
             retained == [tournament EXCEPT !.brackets = brackets]
             advanced ==
                 IF brackets = <<>>
                 THEN IF Len(winners) = 1
                      THEN [retained EXCEPT !.status = Completed]
                      ELSE [retained EXCEPT
                               !.current_round = @ + 1,
                               !.brackets = generate_tournament_brackets(winners)]
                 ELSE retained
         IN  IF tournament.status = InProgress
             THEN Result([s EXCEPT !.tournaments =
                             Put(s.tournaments, tournament_id, advanced)], <<>>)
             ELSE Result(s, <<>>)
    ELSE Result(s, <<>>)

(***************************************************************************)
(* Hub: friends (contract.rs 676-727).                                     *)
(***************************************************************************)
\* map.get(key).await.ok().flatten().unwrap_or_default()
GetOrDefault(m, k) == IF HasKey(m, k) THEN m[k] ELSE <<>>

handle_send_friend_request(s, owner, to_address, timestamp) ==
    LET requests == GetOrDefault(s.friend_requests, to_address)
        request == [from_address |-> owner, timestamp |-> timestamp]
    IN  IF ~\E i \in 1..Len(requests) : requests[i].from_address = owner
        THEN Result([s EXCEPT !.friend_requests =
                        Put(s.friend_requests, to_address, Append(requests, request))],
                    <<>>)
        ELSE Result(s, <<>>)

\* the first half of accept and the whole of reject: the requests of the
\* owner without those of from_address
DropRequests(s, owner, from_address) ==
    [s EXCEPT !.friend_requests =
        Put(s.friend_requests, owner,
            SelectSeq(GetOrDefault(s.friend_requests, owner),
                      LAMBDA r : r.from_address # from_address))]

\* push a FriendEntry for address to the list of holder unless it is listed
AddFriend(s, holder, address, timestamp) ==
    LET list == GetOrDefault(s.friends, holder)
    IN  IF ~\E i \in 1..Len(list) : list[i].address = address
        THEN [s EXCEPT !.friends =
                 Put(s.friends, holder,
                     Append(list, [address |-> address, added_at |-> timestamp]))]
        ELSE s

handle_accept_friend_request(s, owner, from_address, timestamp) ==
    LET dropped == DropRequests(s, owner, from_address)
        mine == AddFriend(dropped, owner, from_address, timestamp)
        theirs == AddFriend(mine, from_address, owner, timestamp)
    IN  Result(theirs, <<>>)

handle_reject_friend_request(s, owner, from_address) ==
    Result(DropRequests(s, owner, from_address), <<>>)

\* retain(|f| f.address != address) on the list of holder, stored back
DropFriend(s, holder, address) ==
    [s EXCEPT !.friends =
        Put(s.friends, holder,
            SelectSeq(GetOrDefault(s.friends, holder), LAMBDA f : f.address # address))]

\* a RemoveFriend that edits the list of the owner alone
RemoveOwnSideOnly(s, owner, friend_address) ==
    Result(DropFriend(s, owner, friend_address), <<>>)

handle_remove_friend(s, owner, friend_address) ==
    Result(DropFriend(DropFriend(s, owner, friend_address), friend_address, owner), <<>>)

(***************************************************************************)
(* Hub: challenges (contract.rs 729-764).  The expiry period, 24 * 60 * 60 *)
(* * 1_000_000 microseconds, is beyond the integers of the model checker,  *)
(* so the clock reading that these handlers receive is written             *)
(* <<seconds, microseconds>> with microseconds < 1_000_000: the u64 of the *)
(* source in base 1_000_000.                                               *)
(***************************************************************************)
Pending == "Pending"
Accepted == "Accepted"
Declined == "Declined"

\* 24 * 60 * 60 * 1_000_000 microseconds, in seconds
ExpirySeconds == 24 * 60 * 60

\* timestamp + (24 * 60 * 60 * 1_000_000)
PlusExpiry(timestamp) == <<timestamp[1] + ExpirySeconds, timestamp[2]>>

\* earlier < later on u64
Before(earlier, later) ==
    \/ earlier[1] < later[1]
    \/ earlier[1] = later[1] /\ earlier[2] < later[2]

\* format!("challenge-{}", challenge_counter)
ChallengeId(challenge_counter) == "challenge-" \o ToString(challenge_counter)

handle_create_challenge(s, owner, opponent, game_type, wager, timestamp) ==
    LET challenge_id == ChallengeId(s.challenge_counter)
        challenge == [id |-> challenge_id,
                      challenger |-> owner,
                      opponent |-> opponent,
                      game_type |-> game_type,
                      wager |-> wager,
                      status |-> Pending,
                      created_at |-> timestamp,
                      expires_at |-> PlusExpiry(timestamp)]
    IN  Result([s EXCEPT !.challenges = Put(s.challenges, challenge_id, challenge),
                         !.challenge_counter = s.challenge_counter + 1],
               <<>>)

\* an AcceptChallenge that still accepts at the instant of expiry
AcceptAtExpiry(s, owner, challenge_id, timestamp) ==
    IF HasKey(s.challenges, challenge_id)
    THEN LET challenge == s.challenges[challenge_id]
         IN  IF /\ challenge.opponent = owner
                /\ challenge.status = Pending
                /\ ~Before(challenge.expires_at, timestamp)
             THEN Result([s EXCEPT !.challenges[challenge_id].status = Accepted], <<>>)
             ELSE Result(s, <<>>)
    ELSE Result(s, <<>>)

handle_accept_challenge(s, owner, challenge_id, timestamp) ==
    IF HasKey(s.challenges, challenge_id)
    THEN LET challenge == s.challenges[challenge_id]
         IN  IF /\ challenge.opponent = owner
                /\ challenge.status = Pending
                /\ Before(timestamp, challenge.expires_at)
             THEN Result([s EXCEPT !.challenges[challenge_id].status = Accepted], <<>>)
             ELSE Result(s, <<>>)
    ELSE Result(s, <<>>)

handle_decline_challenge(s, challenge_id) ==
    IF HasKey(s.challenges, challenge_id)
    THEN IF s.challenges[challenge_id].status = Pending
         THEN Result([s EXCEPT !.challenges[challenge_id].status = Declined], <<>>)
         ELSE Result(s, <<>>)
    ELSE Result(s, <<>>)

(***************************************************************************)
(* Hub: execute_operation (contract.rs 56-129, 939-951).                   *)
(***************************************************************************)
\* format!("{:?}-{}-{}", operation, owner, now)
generate_operation_id(operation, owner, now) == <<operation, owner, now>>

\* a ledger that is never consulted
NeverProcessed(s, op_id) == FALSE

is_operation_processed(s, op_id) == op_id \in s.processed_operations

mark_operation_processed(s, op_id) ==
    [s EXCEPT !.processed_operations = s.processed_operations \cup {op_id}]

\* the match of execute_operation
Dispatch(s, operation, owner, timestamp, opened) ==
    CASE operation.kind = "CreateRoom" ->
             handle_create_room(s, owner, operation.game_type, operation.max_players,
                                operation.entry_fee, operation.game_mode, timestamp, opened)
      [] operation.kind = "JoinRoom" ->
             handle_join_room(s, owner, operation.room_id, timestamp)
      [] operation.kind = "LeaveRoom" ->
             handle_leave_room(s, owner, operation.room_id)
      [] operation.kind = "MakeMove" ->
             handle_make_move(s, owner, operation.room_id, operation.move_data, timestamp)
      [] operation.kind = "CloseRoom" ->
             handle_close_room(s, operation.room_id)
      [] operation.kind = "SubmitSnakeScore" ->
             handle_submit_snake_score(s, owner, operation.score, operation.game_mode,
                                       timestamp)
      [] operation.kind = "SubmitTicTacToeResult" ->
             handle_submit_tictactoe_result(s, owner, operation.won, operation.game_mode,
                                            timestamp)
      [] operation.kind = "SubmitSnakeLaddersResult" ->
             handle_submit_snakeladders_result(s, owner, operation.won,
                                               operation.game_mode, timestamp)
      [] operation.kind = "SubmitUnoResult" ->
             handle_submit_uno_result(s, owner, operation.won, operation.game_mode,
                                      timestamp)
      [] operation.kind = "CreateTournament" ->
             handle_create_tournament(s, owner, operation.name, operation.game_type,
                                      operation.max_players, timestamp)
      [] operation.kind = "JoinTournament" ->
             handle_join_tournament(s, owner, operation.tournament_id)
      [] operation.kind = "StartTournament" ->
             handle_start_tournament(s, operation.tournament_id)
      [] operation.kind = "AdvanceTournament" ->
             handle_advance_tournament(s, operation.tournament_id, operation.match_id,
                                       operation.winner)
      [] operation.kind = "SendFriendRequest" ->
             handle_send_friend_request(s, owner, operation.to_address, timestamp)
      [] operation.kind = "AcceptFriendRequest" ->
             handle_accept_friend_request(s, owner, operation.from_address, timestamp)
      [] operation.kind = "RejectFriendRequest" ->
             handle_reject_friend_request(s, owner, operation.from_address)
      [] operation.kind = "RemoveFriend" ->
             handle_remove_friend(s, owner, operation.friend_address)
      [] operation.kind = "CreateChallenge" ->
             handle_create_challenge(s, owner, operation.opponent, operation.game_type,
                                     operation.wager, timestamp)
      [] operation.kind = "AcceptChallenge" ->
             handle_accept_challenge(s, owner, operation.challenge_id, timestamp)
      [] operation.kind = "DeclineChallenge" ->
             handle_decline_challenge(s, operation.challenge_id)

\* handle_create_room: authenticated_signer().expect(..) aborts an unsigned CreateRoom
Aborts(operation, owner) == operation.kind = "CreateRoom" /\ owner = Anonymous

\* [state, msgs, opened] of one call of execute_operation
execute_operation(s, operation, owner, now, timestamp, opened) ==
    LET op_id == generate_operation_id(operation, owner, now)
    IN  IF is_operation_processed(s, op_id)
        THEN Result(s, <<>>)
        ELSE LET r == Dispatch(s, operation, owner, timestamp, opened)
             IN  [r EXCEPT !.state = mark_operation_processed(r.state, op_id)]

(***************************************************************************)
(* Hub: execute_message (contract.rs 131-284).                             *)
(***************************************************************************)
\* one turn of the loop over player_stats (190-248)
ApplyPlayerStats(s, player_id, score, winner, game_type, sys_time) ==
    LET got == get_or_create_profile(s, player_id, sys_time)
        p == got.profile
        won == player_id = winner
        counted ==
            CASE game_type = "TicTacToe" ->
                     [p EXCEPT !.tictactoe_stats.games_played = @ + 1,
                               !.tictactoe_stats.wins = IF won THEN @ + 1 ELSE @,
                               !.tictactoe_stats.losses = IF won THEN @ ELSE @ + 1,
                               !.xp = IF won THEN @ + 50 ELSE @ + 10]
              [] game_type = "Snake" ->
                     [p EXCEPT !.snake_stats.games_played = @ + 1,
                               !.snake_stats.total_score = @ + score,
                               !.snake_stats.high_score = IF score > @ THEN score ELSE @,
                               !.xp = @ + (score \div 10)]
              [] game_type = "SnakeLadders" ->
                     [p EXCEPT !.snakeladders_stats.games_played = @ + 1,
                               !.snakeladders_stats.wins = IF won THEN @ + 1 ELSE @,
                               !.snakeladders_stats.losses = IF won THEN @ ELSE @ + 1,
                               !.xp = IF won THEN @ + 40 ELSE @ + 10]
              [] game_type = "Uno" ->
                     [p EXCEPT !.uno_stats.games_played = @ + 1,
                               !.uno_stats.wins = IF won THEN @ + 1 ELSE @,
                               !.uno_stats.losses = IF won THEN @ ELSE @ + 1,
                               !.xp = IF won THEN @ + 60 ELSE @ + 15]
        profile == LevelUp(counted)
        stored == [got.state EXCEPT !.users = Put(got.state.users, player_id, profile)]
    IN  update_leaderboard(stored, ToLowercase(game_type), player_id, profile.username, score)

RECURSIVE ApplyAllPlayerStats(_, _, _, _, _)
ApplyAllPlayerStats(s, player_stats, winner, game_type, sys_time) ==
    IF player_stats = <<>> THEN s
    ELSE ApplyAllPlayerStats(
             ApplyPlayerStats(s, Head(player_stats)[1], Head(player_stats)[2],
                              winner, game_type, sys_time),
             Tail(player_stats), winner, game_type, sys_time)

\* a GameEndedWithStats that counts one game for every player of the match
StatsCountedPerPlayer(s, message, sys_time) ==
    LET updated == ApplyAllPlayerStats(s, message.player_stats, message.winner,
                                       message.game_type, sys_time)
        cleaned == [updated EXCEPT !.room_chains = Remove(updated.room_chains, message.room_id)]
        retired == remove_from_active_rooms(cleaned, message.room_id)
    IN  [retired EXCEPT !.total_games = retired.total_games + Len(message.player_stats)]

\* Message::GameEndedWithStats (186-271)
on_game_ended_with_stats(s, message, sys_time) ==
    LET updated == ApplyAllPlayerStats(s, message.player_stats, message.winner,
                                       message.game_type, sys_time)
        cleaned == [updated EXCEPT !.room_chains = Remove(updated.room_chains, message.room_id)]
        retired == remove_from_active_rooms(cleaned, message.room_id)
    IN  [retired EXCEPT !.total_games = retired.total_games + 1]

\* Message::PlayerJoinedRoom (136-146)
on_player_joined_room(s, message) ==
    IF HasKey(s.rooms, message.room_id) /\ ~Contains(s.rooms[message.room_id].players, message.player)
    THEN LET room == s.rooms[message.room_id]
             players == Append(room.players, message.player)
         IN  [s EXCEPT !.rooms = Put(s.rooms, message.room_id,
                 [room EXCEPT !.players = players,
                              !.status = IF AsU8(Len(players)) >= room.max_players
                                         THEN InProgress ELSE room.status])]
    ELSE s

\* Message::GameMove (147-157)
on_game_move(s, message, sys_time) ==
    IF HasKey(s.rooms, message.room_id)
    THEN LET room == s.rooms[message.room_id]
             new_state ==
                 CASE room.game_type = "TicTacToe" ->
                          process_tictactoe_move(room.current_state, message.move_data,
                                                 message.player, room.players)
                   [] room.game_type = "SnakeLadders" ->
                          process_snakeladders_move(room.current_state, message.move_data,
                                                    message.player)
                   [] OTHER -> room.current_state
         IN  [s EXCEPT !.rooms = Put(s.rooms, message.room_id,
                 [room EXCEPT !.last_move_time = sys_time, !.current_state = new_state])]
    ELSE s

\* Message::GameEnded (158-165)
on_game_ended(s, message) ==
    IF HasKey(s.rooms, message.room_id)
    THEN remove_from_active_rooms(
             [s EXCEPT !.rooms = Put(s.rooms, message.room_id,
                 [s.rooms[message.room_id] EXCEPT !.status = Finished,
                                                  !.winner = message.winner])],
             message.room_id)
    ELSE s

\* the hub sends nothing from execute_message; every other message is only logged
execute_message(s, message, sys_time) ==
    CASE message.type = "PlayerJoinedRoom" -> Result(on_player_joined_room(s, message), <<>>)
      [] message.type = "GameMove" -> Result(on_game_move(s, message, sys_time), <<>>)
      [] message.type = "GameEnded" -> Result(on_game_ended(s, message), <<>>)
      [] message.type = "GameEndedWithStats" ->
             Result(on_game_ended_with_stats(s, message, sys_time), <<>>)
      [] OTHER -> Result(s, <<>>)

(***************************************************************************)
(* Room chain: room_contract.rs.                                           *)
(***************************************************************************)
\* instantiate (41-54)
RoomInstantiate ==
    [room_id |-> "",
     game_type_str |-> "TicTacToe",
     players |-> <<>>,
     max_players |-> 2,
     status_str |-> Waiting,
     current_state |-> EmptyState,
     moves |-> EmptyMap,
     created_at |-> 0,
     creator_chain_str |-> "",
     move_counter |-> 0]

\* an InitializeRoom that does not seat the creator
InitializeUnseated(rs, message, chain_id, sys_time) ==
    Result([rs EXCEPT !.room_id = message.room_id,
                      !.game_type_str = message.game_type,
                      !.players = <<>>,
                      !.max_players = message.max_players,
                      !.status_str = Waiting,
                      !.current_state = EmptyState,
                      !.created_at = sys_time,
                      !.creator_chain_str = ChainIdToString(message.creator_chain),
                      !.move_counter = 0],
           <<SendTo(message.creator_chain,
                    [type |-> "RoomChainReady",
                     room_id |-> message.room_id,
                     creator |-> message.creator,
                     game_type |-> message.game_type,
                     room_chain_id |-> chain_id])>>)

\* Message::InitializeRoom (63-94)
on_initialize_room(rs, message, chain_id, sys_time) ==
    Result([rs EXCEPT !.room_id = message.room_id,
                      !.game_type_str = message.game_type,
                      !.players = <<message.creator>>,
                      !.max_players = message.max_players,
                      !.status_str = Waiting,
                      !.current_state = EmptyState,
                      !.created_at = sys_time,
                      !.creator_chain_str = ChainIdToString(message.creator_chain),
                      !.move_counter = 0],
           <<SendTo(message.creator_chain,
                    [type |-> "RoomChainReady",
                     room_id |-> message.room_id,
                     creator |-> message.creator,
                     game_type |-> message.game_type,
                     room_chain_id |-> chain_id])>>)

\* a PlayerJoiningRoom whose acceptance is reported back to the hub
JoinReported(rs, message) ==
    IF rs.room_id # message.room_id THEN Result(rs, <<>>)
    ELSE IF /\ rs.status_str = Waiting
            /\ ~Contains(rs.players, message.player)
            /\ AsU8(Len(rs.players)) < rs.max_players
         THEN LET players == Append(rs.players, message.player)
              IN  Result([rs EXCEPT !.players = players,
                                    !.status_str = IF AsU8(Len(players)) >= rs.max_players
                                                   THEN InProgress ELSE rs.status_str],
                         <<SendTo(MainChain,
                                  [type |-> "PlayerJoinedRoom", room_id |-> message.room_id,
                                   player |-> message.player])>>)
         ELSE Result(rs, <<>>)

\* a PlayerJoiningRoom that seats the player before the others
JoinAtFront(rs, message) ==
    IF rs.room_id # message.room_id THEN Result(rs, <<>>)
    ELSE IF /\ rs.status_str = Waiting
            /\ ~Contains(rs.players, message.player)
            /\ AsU8(Len(rs.players)) < rs.max_players
         THEN LET players == <<message.player>> \o rs.players
              IN  Result([rs EXCEPT !.players = players,
                                    !.status_str = IF AsU8(Len(players)) >= rs.max_players
                                                   THEN InProgress ELSE rs.status_str],
                         <<>>)
         ELSE Result(rs, <<>>)

\* Message::PlayerJoiningRoom (96-125)
on_player_joining_room(rs, message) ==
    IF rs.room_id # message.room_id THEN Result(rs, <<>>)
    ELSE IF /\ rs.status_str = Waiting
            /\ ~Contains(rs.players, message.player)
            /\ AsU8(Len(rs.players)) < rs.max_players
         THEN LET players == Append(rs.players, message.player)
              IN  Result([rs EXCEPT !.players = players,
                                    !.status_str = IF AsU8(Len(players)) >= rs.max_players
                                                   THEN InProgress ELSE rs.status_str],
                         <<>>)
         ELSE Result(rs, <<>>)

\* an accepted move that reports a win and leaves the room InProgress
AcceptMoveKeepsPlaying(rs, message, sys_time, known_chains) ==
    LET is_ttt == rs.game_type_str = "TicTacToe"
        new_state == IF is_ttt
                     THEN room_process_tictactoe_move(rs.current_state, message.move_data,
                                                      message.player, rs.players)
                     ELSE rs.current_state
        moved == [rs EXCEPT !.current_state = new_state,
                            !.moves = Put(rs.moves, rs.move_counter, message.move_data),
                            !.move_counter = rs.move_counter + 1]
        won == is_ttt /\ check_tictactoe_win(new_state)
        player_stats == [i \in 1..Len(rs.players) |->
                            <<rs.players[i], IF rs.players[i] = message.player THEN 1 ELSE 0>>]
        duration_seconds == (sys_time - rs.created_at) \div 1000000
        creator_chain == ChainIdFromStr(rs.creator_chain_str, known_chains)
        stats_msg == [type |-> "GameEndedWithStats",
                      room_id |-> message.room_id,
                      winner |-> message.player,
                      player_stats |-> player_stats,
                      game_type |-> IF is_ttt THEN "TicTacToe" ELSE "Snake",
                      duration_seconds |-> duration_seconds]
    IN  IF won
        THEN Result(moved,
                    IF creator_chain # {}
                    THEN <<SendTo(CHOOSE c \in creator_chain : TRUE, stats_msg)>>
                    ELSE <<>>)
        ELSE Result(moved, <<>>)

\* the accepted move of Message::ProcessMove (146-214)
AcceptMove(rs, message, sys_time, known_chains) ==
    LET is_ttt == rs.game_type_str = "TicTacToe"
        new_state == IF is_ttt
                     THEN room_process_tictactoe_move(rs.current_state, message.move_data,
                                                      message.player, rs.players)
                     ELSE rs.current_state
        moved == [rs EXCEPT !.current_state = new_state,
                            !.moves = Put(rs.moves, rs.move_counter, message.move_data),
                            !.move_counter = rs.move_counter + 1]
        won == is_ttt /\ check_tictactoe_win(new_state)
        player_stats == [i \in 1..Len(rs.players) |->
                            <<rs.players[i], IF rs.players[i] = message.player THEN 1 ELSE 0>>]
        duration_seconds == (sys_time - rs.created_at) \div 1000000
        creator_chain == ChainIdFromStr(rs.creator_chain_str, known_chains)
        stats_msg == [type |-> "GameEndedWithStats",
                      room_id |-> message.room_id,
                      winner |-> message.player,
                      player_stats |-> player_stats,
                      game_type |-> IF is_ttt THEN "TicTacToe" ELSE "Snake",
                      duration_seconds |-> duration_seconds]
    IN  IF won
        THEN Result([moved EXCEPT !.status_str = Finished],
                    IF creator_chain # {}
                    THEN <<SendTo(CHOOSE c \in creator_chain : TRUE, stats_msg)>>
                    ELSE <<>>)
        ELSE Result(moved, <<>>)

\* a ProcessMove that is not checked against the player list
MoveByAnyone(rs, message, sys_time, known_chains) ==
    IF rs.room_id # message.room_id THEN Result(rs, <<>>)
    ELSE IF rs.status_str # InProgress THEN Result(rs, <<>>)
    ELSE AcceptMove(rs, message, sys_time, known_chains)

\* Message::ProcessMove (127-215)
on_process_move(rs, message, sys_time, known_chains) ==
    IF rs.room_id # message.room_id THEN Result(rs, <<>>)
    ELSE IF rs.status_str # InProgress THEN Result(rs, <<>>)
    ELSE IF ~Contains(rs.players, message.player) THEN Result(rs, <<>>)
    ELSE AcceptMove(rs, message, sys_time, known_chains)

room_execute_message(rs, message, chain_id, sys_time, known_chains) ==
    CASE message.type = "InitializeRoom" -> on_initialize_room(rs, message, chain_id, sys_time)
      [] message.type = "PlayerJoiningRoom" -> on_player_joining_room(rs, message)
      [] message.type = "ProcessMove" -> on_process_move(rs, message, sys_time, known_chains)
      [] OTHER -> Result(rs, <<>>)

(***************************************************************************)
(* The system: the state after instantiate, and one action per entry point *)
(* of the two contracts.                                                   *)
(***************************************************************************)
\* GameStationContract::instantiate (40-54)
Init ==
    /\ state = [users |-> EmptyMap,
                snake_high_scores |-> EmptyMap,
                leaderboards |-> EmptyMap,
                total_games |-> 0,
                total_players |-> 0,
                rooms |-> EmptyMap,
                room_counter |-> 0,
                active_room_ids |-> <<>>,
                tournaments |-> EmptyMap,
                tournament_counter |-> 0,
                active_tournament_ids |-> <<>>,
                friends |-> EmptyMap,
                friend_requests |-> EmptyMap,
                challenges |-> EmptyMap,
                challenge_counter |-> 0,
                user_challenges |-> EmptyMap,
                sent_messages |-> {},
                processed_operations |-> {},
                room_chains |-> EmptyMap,
                chain_to_room |-> EmptyMap,
                main_chain_id |-> MainChain]
    /\ room_state = EmptyMap
    /\ inbox = [c \in {MainChain} |-> <<>>]

\* the inboxes after the messages of one handler are sent, in order
RECURSIVE Sent(_, _)
Sent(boxes, msgs) ==
    IF msgs = <<>> THEN boxes
    ELSE LET m == Head(msgs)
             box == IF HasKey(boxes, m.dest) THEN boxes[m.dest] ELSE <<>>
         IN  Sent(Put(boxes, m.dest, Append(box, m.msg)), Tail(msgs))

\* the inbox without its i-th message
Without(box, i) == SubSeq(box, 1, i - 1) \o SubSeq(box, i + 1, Len(box))

\* a client submits an operation: execute_operation on the hub
ExecuteOperation(operation, owner, now, timestamp) ==
    /\ ~Aborts(operation, owner)
    /\ LET r == execute_operation(state, operation, owner, now, timestamp, OpenedChains)
       IN  /\ state' = r.state
           /\ room_state' = [c \in OpenedChains \cup r.opened |->
                                IF c \in OpenedChains THEN room_state[c] ELSE RoomInstantiate]
           /\ inbox' = Sent(inbox, r.msgs)

\* the hub executes the i-th message waiting for it
HubExecuteMessage(i, sys_time) ==
    /\ i \in 1..Len(inbox[MainChain])
    /\ LET r == execute_message(state, inbox[MainChain][i], sys_time)
       IN  /\ state' = r.state
           /\ inbox' = Sent([inbox EXCEPT ![MainChain] = Without(@, i)], r.msgs)
           /\ UNCHANGED room_state

\* the room chain c executes the i-th message waiting for it; a chain's
\* system time never runs backwards
RoomExecuteMessage(c, i, sys_time) ==
    /\ c \in OpenedChains
    /\ i \in 1..Len(inbox[c])
    /\ sys_time >= room_state[c].created_at
    /\ LET r == room_execute_message(room_state[c], inbox[c][i], c, sys_time,
                                     {MainChain} \cup OpenedChains)
       IN  /\ room_state' = [room_state EXCEPT ![c] = r.state]
           /\ inbox' = Sent([inbox EXCEPT ![c] = Without(@, i)], r.msgs)
           /\ UNCHANGED state

\* the hub executes a message that no contract of the repository sends
HubLegacyMessage(message, sys_time) ==
    /\ state' = execute_message(state, message, sys_time).state
    /\ UNCHANGED <<room_state, inbox>>

(***************************************************************************)
(* Service: the leaderboard query (service.rs 215-231).                    *)
(***************************************************************************)
\* the match on game_type in QueryRoot::leaderboard
LeaderboardKey(game_type) ==
    CASE game_type = "Snake" -> "snake"
      [] game_type = "TicTacToe" -> "tictactoe"
      [] game_type = "SnakeLadders" -> "snakeladders"
      [] game_type = "Uno" -> "uno"

\* limit is {} for None and {n} for Some(n); take(limit.unwrap_or(10))
leaderboard(s, game_type, limit) ==
    LET entries == GetOrDefault(s.leaderboards, LeaderboardKey(game_type))
        n == IF limit = {} THEN 10 ELSE CHOOSE l \in limit : TRUE
    IN  SubSeq(entries, 1, IF Len(entries) < n THEN Len(entries) ELSE n)

(***************************************************************************)
(* Inputs shared by the specifications.                                    *)
(***************************************************************************)
\* runtime.system_time(): every block of the model carries this timestamp
SysTimes == {7}

\* a room id that is never allocated
UnknownRoom == "room-tictactoe-99"

\* the room ids the hub has handed out
KnownRooms == (DOMAIN state.rooms) \cup (DOMAIN state.room_chains)

CreateRoomOp(game_type, max_players) ==
    [kind |-> "CreateRoom", game_type |-> game_type, max_players |-> max_players,
     entry_fee |-> 0, game_mode |-> "Multiplayer"]

JoinRoomOp(room_id) == [kind |-> "JoinRoom", room_id |-> room_id]

LeaveRoomOp(room_id) == [kind |-> "LeaveRoom", room_id |-> room_id]

MakeMoveOp(room_id, move_data) ==
    [kind |-> "MakeMove", room_id |-> room_id, move_data |-> move_data]

CloseRoomOp(room_id) == [kind |-> "CloseRoom", room_id |-> room_id]

RoomOps(creations, rooms, moves) ==
    {CreateRoomOp(c[1], c[2]) : c \in creations}
    \cup {JoinRoomOp(r) : r \in rooms \cup {UnknownRoom}}
    \cup {LeaveRoomOp(r) : r \in rooms}
    \cup {CloseRoomOp(r) : r \in rooms}
    \cup {MakeMoveOp(r, m) : r \in rooms, m \in moves}

\* messages are executed in any order
HubStep ==
    \E i \in 1..Len(inbox[MainChain]), sys_time \in SysTimes : HubExecuteMessage(i, sys_time)

RoomStep ==
    \E c \in OpenedChains, sys_time \in SysTimes :
        \E i \in 1..Len(inbox[c]) : RoomExecuteMessage(c, i, sys_time)

(***************************************************************************)
(* Spec: the lobby.  Three players open, join, leave and close rooms of    *)
(* two game types and of capacity 2 and 3; every operation is dispatched   *)
(* at the same SystemTime::now() reading.                                  *)
(***************************************************************************)
\* room_counter never passes MaxRooms
MaxRooms == 2
\* at most MaxOps fingerprints are recorded in processed_operations
MaxOps == 3

Players == {"A", "B", "C"}

LobbyCreations == {<<"TicTacToe", 2>>, <<"SnakeLadders", 3>>}

ClientStep ==
    /\ \E operation \in RoomOps(LobbyCreations, KnownRooms, {}), owner \in Players,
          timestamp \in SysTimes :
           ExecuteOperation(operation, owner, 0, timestamp)
    /\ Cardinality(state'.processed_operations) <= MaxOps
    /\ state'.room_counter <= MaxRooms

Next == ClientStep \/ HubStep \/ RoomStep

Spec == Init /\ [][Next]_vars

(***************************************************************************)
(* SpecPlay: one match.  Two players open a tic-tac-toe room of capacity   *)
(* 2, join, leave, close and move along the top row; the room chain plays  *)
(* the match and reports its end to the hub.                               *)
(***************************************************************************)
\* at most MaxPlayOps fingerprints are recorded in processed_operations
MaxPlayOps == 5

Opponents == {"A", "B"}

PlayCreations == IF state.room_counter = 0 THEN {<<"TicTacToe", 2>>} ELSE {}

PlayMoves == {<<0, 0>>, <<1, 0>>, <<2, 0>>}

PlayClientStep ==
    /\ \E operation \in RoomOps(PlayCreations, KnownRooms, PlayMoves), owner \in Opponents,
          timestamp \in SysTimes :
           ExecuteOperation(operation, owner, 0, timestamp)
    /\ Cardinality(state'.processed_operations) <= MaxPlayOps

NextPlay == PlayClientStep \/ HubStep \/ RoomStep

SpecPlay == Init /\ [][NextPlay]_vars

(***************************************************************************)
(* SpecDispatch: the same operations dispatched at two readings of         *)
(* SystemTime::now().                                                      *)
(***************************************************************************)
\* at most MaxDispatchOps fingerprints are recorded in processed_operations
MaxDispatchOps == 3

Nows == {0, 1}

DispatchCreations == {<<"TicTacToe", 2>>}

DispatchMoves == {<<0, 0>>}

DispatchClientStep ==
    /\ \E operation \in RoomOps(DispatchCreations, KnownRooms, DispatchMoves),
          owner \in Opponents, now \in Nows, timestamp \in SysTimes :
           ExecuteOperation(operation, owner, now, timestamp)
    /\ Cardinality(state'.processed_operations) <= MaxDispatchOps

NextDispatch == DispatchClientStep \/ HubStep \/ RoomStep

SpecDispatch == Init /\ [][NextDispatch]_vars

(***************************************************************************)
(* SpecLegacy: one room of capacity 0 or 2 and two players, with a hub     *)
(* that also receives the messages of lib.rs that execute_message handles  *)
(* and no contract of the repository sends (PlayerJoinedRoom, GameMove,    *)
(* GameEnded).                                                             *)
(***************************************************************************)
\* at most MaxLegacyOps fingerprints are recorded in processed_operations
MaxLegacyOps == 3

LegacyCreations ==
    IF state.room_counter = 0 THEN {<<"TicTacToe", 2>>, <<"TicTacToe", 0>>} ELSE {}

LegacyMessages ==
    {[type |-> "PlayerJoinedRoom", room_id |-> r, player |-> p] :
        r \in KnownRooms, p \in Opponents}
    \cup {[type |-> "GameMove", room_id |-> r, player |-> p, move_data |-> <<0, 0>>] :
        r \in KnownRooms, p \in Opponents}
    \cup {[type |-> "GameEnded", room_id |-> r, winner |-> "A"] : r \in KnownRooms}

LegacyClientStep ==
    /\ \E operation \in RoomOps(LegacyCreations, KnownRooms, {}), owner \in Opponents,
          timestamp \in SysTimes :
           ExecuteOperation(operation, owner, 0, timestamp)
    /\ Cardinality(state'.processed_operations) <= MaxLegacyOps

LegacyStep ==
    \E message \in LegacyMessages, sys_time \in SysTimes : HubLegacyMessage(message, sys_time)

NextLegacy == LegacyClientStep \/ LegacyStep \/ HubStep \/ RoomStep

SpecLegacy == Init /\ [][NextLegacy]_vars

(***************************************************************************)
(* SpecTrack: one snakes-and-ladders room of capacity 2 and three players, *)
(* who join, leave, close and roll a 3.                                    *)
(***************************************************************************)
\* at most MaxTrackOps fingerprints are recorded in processed_operations
MaxTrackOps == 3

TrackCreations == IF state.room_counter = 0 THEN {<<"SnakeLadders", 2>>} ELSE {}

TrackMoves == {<<3>>}

TrackClientStep ==
    /\ \E operation \in RoomOps(TrackCreations, KnownRooms, TrackMoves), owner \in Players,
          timestamp \in SysTimes :
           ExecuteOperation(operation, owner, 0, timestamp)
    /\ Cardinality(state'.processed_operations) <= MaxTrackOps

NextTrack == TrackClientStep \/ HubStep \/ RoomStep

SpecTrack == Init /\ [][NextTrack]_vars

(***************************************************************************)
(* SpecEngine: the rule engines of the hub.  A opens one room, of either   *)
(* board game, and the hub executes GameMove messages of two players with  *)
(* every payload below: the handler applies the room's engine to whatever  *)
(* it is given, so every board and every pair of positions is reached.     *)
(***************************************************************************)
EngineCreations ==
    IF state.room_counter = 0 THEN {<<"TicTacToe", 2>>, <<"SnakeLadders", 2>>} ELSE {}

\* "x,y" for every cell, out of bounds, unparsable, too short, too long;
\* a die from 0 to 7 and an unparsable one
EnginePayloads ==
    {<<x, y>> : x \in 0..2, y \in 0..2}
    \cup {<<3, 0>>, <<0, 3>>, <<-1, 1>>, <<1, -1>>, <<0, 0, 0>>}
    \cup {<<d>> : d \in 0..7}
    \cup {<<-1>>}

EngineClientStep ==
    \E c \in EngineCreations, timestamp \in SysTimes :
        ExecuteOperation(CreateRoomOp(c[1], c[2]), "A", 0, timestamp)

EngineStep ==
    \E r \in DOMAIN state.rooms, p \in Opponents, m \in EnginePayloads, sys_time \in SysTimes :
        HubLegacyMessage([type |-> "GameMove", room_id |-> r, player |-> p, move_data |-> m],
                         sys_time)

NextEngine == EngineClientStep \/ EngineStep \/ HubStep \/ RoomStep

SpecEngine == Init /\ [][NextEngine]_vars

(***************************************************************************)
(* SpecClose: A opens a tic-tac-toe room, B joins, A moves along the top   *)
(* row, and A leaves or closes the room: the room is closed before, during *)
(* and after a match whose report has created profiles.                    *)
(***************************************************************************)
\* at most MaxCloseOps fingerprints are recorded in processed_operations
MaxCloseOps == 6

CloseCreations ==
    IF state.room_counter = 0 THEN {<<"TicTacToe", 2>>} ELSE {}

\* the operations of the two clients, each with its signer
CloseScript ==
    {<<CreateRoomOp(c[1], c[2]), "A">> : c \in CloseCreations}
    \cup {<<JoinRoomOp(r), "B">> : r \in KnownRooms}
    \cup {<<MakeMoveOp(r, m), "A">> : r \in KnownRooms, m \in PlayMoves}
    \cup {<<LeaveRoomOp(r), "A">> : r \in KnownRooms}
    \cup {<<CloseRoomOp(r), "A">> : r \in KnownRooms}

CloseClientStep ==
    /\ \E call \in CloseScript, timestamp \in SysTimes :
           ExecuteOperation(call[1], call[2], 0, timestamp)
    /\ Cardinality(state'.processed_operations) <= MaxCloseOps

NextClose == CloseClientStep \/ HubStep \/ RoomStep

SpecClose == Init /\ [][NextClose]_vars

(***************************************************************************)
(* SpecScore: two players submit results of the four games in the three    *)
(* game modes; the snake scores are worth 950, 2500 and 3000 experience.   *)
(***************************************************************************)
\* at most MaxScoreOps fingerprints are recorded in processed_operations
MaxScoreOps == 3

SnakeScores == {9500, 25000, 30000}

ResultKinds == {"SubmitTicTacToeResult", "SubmitSnakeLaddersResult", "SubmitUnoResult"}

SubmitSnakeScoreOp(score, game_mode) ==
    [kind |-> "SubmitSnakeScore", score |-> score, game_mode |-> game_mode]

SubmitResultOp(kind, won, game_mode) ==
    [kind |-> kind, won |-> won, game_mode |-> game_mode]

SnakeScoreStep ==
    /\ \E score \in SnakeScores, game_mode \in GameModes, owner \in Opponents,
          timestamp \in SysTimes :
           ExecuteOperation(SubmitSnakeScoreOp(score, game_mode), owner, 0, timestamp)
    /\ Cardinality(state'.processed_operations) <= MaxScoreOps

ResultStep ==
    /\ \E kind \in ResultKinds, won \in BOOLEAN, game_mode \in GameModes,
          owner \in Opponents, timestamp \in SysTimes :
           ExecuteOperation(SubmitResultOp(kind, won, game_mode), owner, 0, timestamp)
    /\ Cardinality(state'.processed_operations) <= MaxScoreOps

NextScore == SnakeScoreStep \/ ResultStep

SpecScore == Init /\ [][NextScore]_vars

(***************************************************************************)
(* SpecBoard: one more player than a leaderboard holds.  The players       *)
(* submit their first snake score one after the other, and the first       *)
(* player submits further scores in between.                               *)
(***************************************************************************)
\* the number of players that submit a snake score
MaxBoardPlayers == 101

\* the address of the k-th player
BoardPlayer(k) == "P" \o ToString(k)

\* the first score of the k-th player
FirstScores(k) ==
    IF k = 1 THEN {3, 5}
    ELSE IF k > LeaderboardCap THEN {3, 5, 10}
    ELSE {5}

\* the scores the first player submits later
LaterScores == {3, 5, 10}

NewcomerStep ==
    /\ state.total_players < MaxBoardPlayers
    /\ \E score \in FirstScores(state.total_players + 1), timestamp \in SysTimes :
           ExecuteOperation(SubmitSnakeScoreOp(score, "Solo"),
                            BoardPlayer(state.total_players + 1), 0, timestamp)

ResubmitStep ==
    /\ HasKey(state.users, BoardPlayer(1))
    /\ \E score \in LaterScores, timestamp \in SysTimes :
           ExecuteOperation(SubmitSnakeScoreOp(score, "Solo"), BoardPlayer(1), 0, timestamp)

NextBoard == NewcomerStep \/ ResubmitStep

SpecBoard == Init /\ [][NextBoard]_vars

(***************************************************************************)
(* SpecTourney: A creates one tournament for 2 or for 4 players; four      *)
(* players join in any order, A also a second time; A starts it and        *)
(* reports winners of the matches of the current brackets and of a match   *)
(* that is not played.                                                     *)
(***************************************************************************)
\* at most MaxTourneyOps fingerprints are recorded in processed_operations
MaxTourneyOps == 8

Entrants == {"A", "B", "C", "D"}

TourneySizes == {2, 4}

\* a match id that no bracket has
UnknownMatch == "A-A"

CreateTournamentOp(name, game_type, max_players) ==
    [kind |-> "CreateTournament", name |-> name, game_type |-> game_type,
     max_players |-> max_players]

JoinTournamentOp(tournament_id) ==
    [kind |-> "JoinTournament", tournament_id |-> tournament_id]

StartTournamentOp(tournament_id) ==
    [kind |-> "StartTournament", tournament_id |-> tournament_id]

AdvanceTournamentOp(tournament_id, match_id, winner) ==
    [kind |-> "AdvanceTournament", tournament_id |-> tournament_id,
     match_id |-> match_id, winner |-> winner]

\* the clock readings at which an entrant submits JoinTournament: A twice
JoinNows(owner) == IF owner = "A" THEN Nows ELSE {0}

TourneyBound == Cardinality(state'.processed_operations) <= MaxTourneyOps

TourneyCreateStep ==
    /\ state.tournament_counter = 0
    /\ \E max_players \in TourneySizes, timestamp \in SysTimes :
           ExecuteOperation(CreateTournamentOp("Cup", "TicTacToe", max_players), "A", 0,
                            timestamp)
    /\ TourneyBound

TourneyJoinStep ==
    /\ \E t \in DOMAIN state.tournaments, owner \in Entrants, timestamp \in SysTimes :
           \E now \in JoinNows(owner) :
               ExecuteOperation(JoinTournamentOp(t), owner, now, timestamp)
    /\ TourneyBound

TourneyStartStep ==
    /\ \E t \in DOMAIN state.tournaments, timestamp \in SysTimes :
           ExecuteOperation(StartTournamentOp(t), "A", 0, timestamp)
    /\ TourneyBound

TourneyAdvanceStep ==
    /\ \E t \in DOMAIN state.tournaments, timestamp \in SysTimes :
           \E match_id \in {MatchKey(state.tournaments[t].brackets[i]) :
                                i \in 1..Len(state.tournaments[t].brackets)}
                           \cup {UnknownMatch},
              winner \in Entrants :
               ExecuteOperation(AdvanceTournamentOp(t, match_id, winner), "A", 0, timestamp)
    /\ TourneyBound

NextTourney ==
    TourneyCreateStep \/ TourneyJoinStep \/ TourneyStartStep \/ TourneyAdvanceStep

SpecTourney == Init /\ [][NextTourney]_vars

(***************************************************************************)
(* SpecFriends: A and B send, accept and reject friend requests and remove *)
(* friends, naming each other and themselves; accepting needs no request,  *)
(* and accept and remove are submitted at two clock readings so that a     *)
(* friendship can be ended and made again.                                 *)
(***************************************************************************)
\* at most MaxFriendOps fingerprints are recorded in processed_operations
MaxFriendOps == 4

Addresses == {"A", "B"}

SendFriendRequestOp(to_address) ==
    [kind |-> "SendFriendRequest", to_address |-> to_address]

AcceptFriendRequestOp(from_address) ==
    [kind |-> "AcceptFriendRequest", from_address |-> from_address]

RejectFriendRequestOp(from_address) ==
    [kind |-> "RejectFriendRequest", from_address |-> from_address]

RemoveFriendOp(friend_address) ==
    [kind |-> "RemoveFriend", friend_address |-> friend_address]

FriendBound == Cardinality(state'.processed_operations) <= MaxFriendOps

SendRequestStep ==
    /\ \E owner \in Opponents, to_address \in Addresses, timestamp \in SysTimes :
           ExecuteOperation(SendFriendRequestOp(to_address), owner, 0, timestamp)
    /\ FriendBound

AcceptRequestStep ==
    /\ \E owner \in Opponents, from_address \in Addresses, now \in Nows,
          timestamp \in SysTimes :
           ExecuteOperation(AcceptFriendRequestOp(from_address), owner, now, timestamp)
    /\ FriendBound

RejectRequestStep ==
    /\ \E owner \in Opponents, from_address \in Addresses, timestamp \in SysTimes :
           ExecuteOperation(RejectFriendRequestOp(from_address), owner, 0, timestamp)
    /\ FriendBound

RemoveFriendStep ==
    /\ \E owner \in Opponents, friend_address \in Addresses, now \in Nows,
          timestamp \in SysTimes :
           ExecuteOperation(RemoveFriendOp(friend_address), owner, now, timestamp)
    /\ FriendBound

NextFriends ==
    SendRequestStep \/ AcceptRequestStep \/ RejectRequestStep \/ RemoveFriendStep

SpecFriends == Init /\ [][NextFriends]_vars

(***************************************************************************)
(* SpecChallenge: A challenges A or B, once or twice, at the first clock   *)
(* reading; A and B accept and decline the challenges, and an unknown one, *)
(* at the first reading, one microsecond before the expiry of the          *)
(* challenges, at their expiry and one microsecond after it.  The reading  *)
(* that enters the fingerprint of an operation is the index of the reading *)
(* that the handler receives.                                              *)
(***************************************************************************)
\* at most MaxChallengeOps fingerprints are recorded in processed_operations
MaxChallengeOps == 4

MaxChallenges == 2

\* system_time().micros() at the submissions
ChallengeTimes ==
    <<  <<0, 7>>, <<ExpirySeconds, 6>>, <<ExpirySeconds, 7>>, <<ExpirySeconds, 8>>  >>

\* a challenge id that is never allocated
UnknownChallenge == "challenge-99"

CreateChallengeOp(opponent, game_type, wager) ==
    [kind |-> "CreateChallenge", opponent |-> opponent, game_type |-> game_type,
     wager |-> wager]

AcceptChallengeOp(challenge_id) ==
    [kind |-> "AcceptChallenge", challenge_id |-> challenge_id]

DeclineChallengeOp(challenge_id) ==
    [kind |-> "DeclineChallenge", challenge_id |-> challenge_id]

ChallengeBound == Cardinality(state'.processed_operations) <= MaxChallengeOps

CreateChallengeStep ==
    /\ state.challenge_counter < MaxChallenges
    /\ \E opponent \in Opponents :
           ExecuteOperation(CreateChallengeOp(opponent, "TicTacToe", state.challenge_counter),
                            "A", 1, ChallengeTimes[1])
    /\ ChallengeBound

AcceptChallengeStep ==
    /\ \E c \in DOMAIN state.challenges \cup {UnknownChallenge}, owner \in Opponents,
          k \in DOMAIN ChallengeTimes :
           ExecuteOperation(AcceptChallengeOp(c), owner, k, ChallengeTimes[k])
    /\ ChallengeBound

DeclineChallengeStep ==
    /\ \E c \in DOMAIN state.challenges \cup {UnknownChallenge}, owner \in Opponents,
          k \in {1, 4} :
           ExecuteOperation(DeclineChallengeOp(c), owner, k, ChallengeTimes[k])
    /\ ChallengeBound

NextChallenge == CreateChallengeStep \/ AcceptChallengeStep \/ DeclineChallengeStep

SpecChallenge == Init /\ [][NextChallenge]_vars

(***************************************************************************)
(* SpecAfter: what follows a match.  A opens a tic-tac-toe room, B joins,  *)
(* A moves along the top row, and A leaves or closes the room, as in       *)
(* SpecClose; once the report of the match has removed the shard mapping   *)
(* of the room, A submits the same moves at a second clock reading, and    *)
(* the hub executes the report again and a GameEnded for the room.         *)
(***************************************************************************)
\* at most MaxAfterOps fingerprints are recorded in processed_operations
MaxAfterOps == 8

\* the hub executes at most MaxReports reports of one match
MaxReports == 2

\* the operations of the two clients, each with its signer and the reading
\* of SystemTime::now() at its dispatch
AfterScript ==
    {<<CreateRoomOp(c[1], c[2]), "A", 0>> : c \in CloseCreations}
    \cup {<<JoinRoomOp(r), "B", 0>> : r \in KnownRooms}
    \cup {<<MakeMoveOp(r, m), "A", IF HasKey(state.room_chains, r) THEN 0 ELSE 1>> :
            r \in KnownRooms, m \in PlayMoves}
    \cup {<<LeaveRoomOp(r), "A", 0>> : r \in KnownRooms}
    \cup {<<CloseRoomOp(r), "A", 0>> : r \in KnownRooms}

AfterClientStep ==
    /\ \E call \in AfterScript, timestamp \in SysTimes :
           ExecuteOperation(call[1], call[2], call[3], timestamp)
    /\ Cardinality(state'.processed_operations) <= MaxAfterOps

\* the GameEndedWithStats that the finished room chain c has sent: A, the
\* only player who moves, has won
ReportOf(c, sys_time) ==
    LET rs == room_state[c]
    IN  [type |-> "GameEndedWithStats",
         room_id |-> rs.room_id,
         winner |-> "A",
         player_stats |-> [i \in 1..Len(rs.players) |->
                              <<rs.players[i], IF rs.players[i] = "A" THEN 1 ELSE 0>>],
         game_type |-> "TicTacToe",
         duration_seconds |-> (sys_time - rs.created_at) \div 1000000]

\* the hub executes once more the report that it has executed
RedeliverStep ==
    \E c \in OpenedChains, sys_time \in SysTimes :
        /\ room_state[c].status_str = Finished
        /\ state.total_games \in 1..(MaxReports - 1)
        /\ HubLegacyMessage(ReportOf(c, sys_time), sys_time)

\* the hub executes a GameEnded for a room of the mirror
GameEndedStep ==
    \E r \in DOMAIN state.rooms, sys_time \in SysTimes :
        HubLegacyMessage([type |-> "GameEnded", room_id |-> r, winner |-> "A"], sys_time)

NextAfter == AfterClientStep \/ RedeliverStep \/ GameEndedStep \/ HubStep \/ RoomStep

SpecAfter == Init /\ [][NextAfter]_vars

(***************************************************************************)
(* SpecOrdered: one room of capacity 2 or 3 and three players who join it  *)
(* and an unknown room; A moves; nobody leaves or closes.  Every chain     *)
(* executes the messages sent to it in the order in which they were sent.  *)
(***************************************************************************)
\* at most MaxOrderedOps fingerprints are recorded in processed_operations
MaxOrderedOps == 5

OrderedCreations == IF state.room_counter = 0 THEN LobbyCreations ELSE {}

OrderedOps ==
    {CreateRoomOp(c[1], c[2]) : c \in OrderedCreations}
    \cup {JoinRoomOp(r) : r \in KnownRooms \cup {UnknownRoom}}
    \cup {MakeMoveOp(r, m) : r \in KnownRooms, m \in DispatchMoves}

OrderedClientStep ==
    /\ \E operation \in OrderedOps, owner \in Players, timestamp \in SysTimes :
           ExecuteOperation(operation, owner, 0, timestamp)
    /\ Cardinality(state'.processed_operations) <= MaxOrderedOps

\* the hub executes the message that has waited longest
HubHeadStep ==
    \E i \in {1}, sys_time \in SysTimes : HubExecuteMessage(i, sys_time)

\* a room chain executes the message that has waited longest
RoomHeadStep ==
    \E c \in OpenedChains, sys_time \in SysTimes : RoomExecuteMessage(c, 1, sys_time)

NextOrdered == OrderedClientStep \/ HubHeadStep \/ RoomHeadStep

SpecOrdered == Init /\ [][NextOrdered]_vars

(***************************************************************************)
(* SpecGrid: one tic-tac-toe match played to its end.  A opens the room, B *)
(* joins, and while the room chain is InProgress and has executed what was *)
(* sent to it, either player submits a move onto the next empty cell, row  *)
(* by row.  Every message to the room chain is delivered and the players   *)
(* go on moving as long as a cell is left: these steps are weakly fair.    *)
(* The hub sends nothing from execute_message, so its steps add no step of *)
(* the room chain; their delivery is a premise of the property.            *)
(***************************************************************************)
\* the cells as x, y in the order in which they are taken
CellOrder == [k \in 1..9 |-> <<(k - 1) % 3, (k - 1) \div 3>>]

GridSeatStep ==
    \E call \in {<<CreateRoomOp(c[1], c[2]), "A">> : c \in CloseCreations}
                \cup {<<JoinRoomOp(r), "B">> : r \in KnownRooms},
       timestamp \in SysTimes :
        ExecuteOperation(call[1], call[2], 0, timestamp)

GridMoveStep ==
    \E r \in DOMAIN state.room_chains, owner \in Opponents, timestamp \in SysTimes :
        LET c == state.room_chains[r]
        IN  /\ room_state[c].status_str = InProgress
            /\ inbox[c] = <<>>
            /\ room_state[c].move_counter < Len(CellOrder)
            /\ ExecuteOperation(MakeMoveOp(r, CellOrder[room_state[c].move_counter + 1]),
                                owner, 0, timestamp)

NextGrid == GridSeatStep \/ GridMoveStep \/ HubStep \/ RoomStep

SpecGrid ==
    /\ Init
    /\ [][NextGrid]_vars
    /\ WF_vars(GridSeatStep)
    /\ WF_vars(GridMoveStep)
    /\ WF_vars(RoomStep)

(***************************************************************************)
(* Properties.  A step of the hub that runs a handler records one new      *)
(* fingerprint <<operation, owner, now>> in processed_operations; the      *)
(* properties of a handler are stated on the steps that record one.        *)
(***************************************************************************)
\* the fingerprints recorded by a step
Recorded == state'.processed_operations \ state.processed_operations

\* the hub's state with one more fingerprint and nothing else changed
OnlyRecorded(f) == [state EXCEPT !.processed_operations = @ \cup {f}]

AllDelivered == \A c \in DOMAIN inbox : inbox[c] = <<>>

InFlight(c, type) == \E i \in 1..Len(inbox[c]) : inbox[c][i].type = type

Initialized(c) == room_state[c].room_id # ""

StatusRank(status) ==
    CASE status = Waiting -> 0
      [] status = InProgress -> 1
      [] status = Finished -> 2

\* C1: in every reachable state of the hub, every room of the mirror has at
\* most max_players players.
MirrorWithinCapacity ==
    \A r \in DOMAIN state.rooms :
        Len(state.rooms[r].players) <= state.rooms[r].max_players

NoInitializeInFlight == \A c \in DOMAIN inbox : ~InFlight(c, "InitializeRoom")

ShardRoomIds == {room_state[c].room_id : c \in {d \in OpenedChains : Initialized(d)}}

\* C3 as stated: with no InitializeRoom in flight, the room ids that have an
\* initialized room chain are exactly the room ids that room_chains maps.
ShardIffMapped == NoInitializeInFlight => ShardRoomIds = DOMAIN state.room_chains

\* C3: with no InitializeRoom in flight, every room id that room_chains maps
\* has an initialized room chain, the one it is mapped to; and a room chain
\* whose room id is no longer mapped is Finished and its match has been
\* counted by the hub.
ShardWhileMapped ==
    NoInitializeInFlight =>
        /\ \A r \in DOMAIN state.room_chains :
               /\ state.room_chains[r] \in OpenedChains
               /\ room_state[state.room_chains[r]].room_id = r
        /\ \A c \in OpenedChains :
               Initialized(c) /\ ~HasKey(state.room_chains, room_state[c].room_id)
                   => room_state[c].status_str = Finished /\ state.total_games > 0

\* the hub has executed GameEndedWithStats: the room chain is there, its
\* mapping is gone, the mirror record remains
ShardOutlivesMapping ==
    /\ AllDelivered
    /\ \E c \in OpenedChains :
           /\ Initialized(c)
           /\ room_state[c].status_str = Finished
           /\ ~HasKey(state.room_chains, room_state[c].room_id)
           /\ HasKey(state.rooms, room_state[c].room_id)
           /\ state.total_games = 1

\* C4: an operation whose fingerprint is recorded changes nothing and sends
\* nothing when it is executed again; executing any operation twice with the
\* same fingerprint leaves what executing it once leaves; a fingerprint is
\* recorded by the step that runs the handler, with the handler's effect, and
\* is never removed.
RecordedIsNoOp ==
    /\ [](\A f \in state.processed_operations, timestamp \in SysTimes :
              execute_operation(state, f[1], f[2], f[3], timestamp, OpenedChains)
                  = Result(state, <<>>))
    /\ [](\A operation \in RoomOps(DispatchCreations, KnownRooms, DispatchMoves),
             owner \in Opponents, now \in Nows, timestamp \in SysTimes :
              LET once == execute_operation(state, operation, owner, now, timestamp,
                                            OpenedChains)
                  twice == execute_operation(once.state, operation, owner, now, timestamp,
                                             OpenedChains \cup once.opened)
              IN  twice = Result(once.state, <<>>))
    /\ [][/\ state.processed_operations \subseteq state'.processed_operations
          /\ \A f \in Recorded :
                 \E timestamp \in SysTimes :
                     LET r == Dispatch(state, f[1], f[2], timestamp, OpenedChains)
                     IN  /\ state' = [r.state EXCEPT !.processed_operations = @ \cup {f}]
                         /\ inbox' = Sent(inbox, r.msgs)
         ]_vars

\* a fingerprint is recorded whose handler, run again, would change the hub
RecordedHandlerStillActs ==
    \E f \in state.processed_operations, timestamp \in SysTimes :
        LET r == Dispatch(state, f[1], f[2], timestamp, OpenedChains)
        IN  r.state # state /\ r.msgs # <<>>

\* C5: the effect of an action (an operation and its submitter) is applied at
\* most once: a step that executes an action already executed, at whatever
\* reading of the clock, changes nothing but the ledger and sends nothing.
AtMostOnceEffect ==
    [][\A f \in Recorded :
           (\E g \in state.processed_operations : g[1] = f[1] /\ g[2] = f[2])
               => /\ state' = OnlyRecorded(f)
                  /\ inbox' = inbox
                  /\ room_state' = room_state
      ]_vars

\* C6: a CreateRoom executed at room counter c for game type t allocates the
\* unused id "room-<t in lowercase>-<c>", adds 1 to room_counter, maps the id
\* to a new chain and that chain to the id, inserts a Waiting mirror room
\* whose only player is the creator, appends the id to active_room_ids, and
\* sends one InitializeRoom (room id, game type, creator, capacity, the hub's
\* chain) to the new chain and nothing else.
CreateRoomEffect ==
    [][\A f \in Recorded :
           f[1].kind = "CreateRoom" =>
               LET c == state.room_counter
                   id == "room-" \o ToLowercase(f[1].game_type) \o "-" \o ToString(c)
                   shard == state'.room_chains[id]
               IN  /\ ~HasKey(state.rooms, id)
                   /\ ~HasKey(state.room_chains, id)
                   /\ \A d \in OpenedChains : room_state[d].room_id # id
                   /\ state'.room_counter = c + 1
                   /\ DOMAIN state'.room_chains = (DOMAIN state.room_chains) \cup {id}
                   /\ shard \notin OpenedChains \cup {MainChain}
                   /\ DOMAIN room_state' = OpenedChains \cup {shard}
                   /\ state'.chain_to_room = Put(state.chain_to_room, shard, id)
                   /\ DOMAIN state'.rooms = (DOMAIN state.rooms) \cup {id}
                   /\ state'.rooms[id].id = id
                   /\ state'.rooms[id].game_type = f[1].game_type
                   /\ state'.rooms[id].max_players = f[1].max_players
                   /\ state'.rooms[id].status = Waiting
                   /\ state'.rooms[id].players = <<f[2]>>
                   /\ state'.active_room_ids = Append(state.active_room_ids, id)
                   /\ \A r \in DOMAIN state.rooms : state'.rooms[r] = state.rooms[r]
                   /\ \A r \in DOMAIN state.room_chains :
                          state'.room_chains[r] = state.room_chains[r]
                   /\ DOMAIN inbox' = (DOMAIN inbox) \cup {shard}
                   /\ \A d \in DOMAIN inbox : inbox'[d] = inbox[d]
                   /\ inbox'[shard] = <<[type |-> "InitializeRoom",
                                         room_id |-> id,
                                         game_type |-> f[1].game_type,
                                         creator |-> f[2],
                                         max_players |-> f[1].max_players,
                                         creator_chain |-> MainChain]>>
      ]_vars

\* two rooms of different game types have been created, one after the other
TwoRoomsCreated ==
    /\ state.room_counter = 2
    /\ \E r1, r2 \in DOMAIN state.rooms :
           /\ r1 # r2
           /\ state.rooms[r1].game_type # state.rooms[r2].game_type
           /\ state.room_chains[r1] # state.room_chains[r2]

\* the members of a room of capacity 2 before and after a step: they change
\* only when a second, distinct player is accepted into a Waiting room, which
\* is InProgress from that step on; status never returns to Waiting
SecondPlayerStarts(players, status, players2, status2) ==
    /\ players2 # players =>
           /\ Len(players) = 1
           /\ \E p \in Players \ {players[1]} : players2 = Append(players, p)
           /\ status = Waiting
           /\ status2 = InProgress
    /\ status2 = InProgress /\ status # InProgress => players2 # players
    /\ status2 = Waiting => status = Waiting

\* C7: for a room of capacity 2, in the mirror and on the room's chain alike:
\* the room never has more than 2 members, it is InProgress only with 2
\* members and never Waiting with 2; the step that accepts the second
\* distinct player finds it Waiting and leaves it InProgress, and no other
\* step changes its members.
CapacityTwoRoom ==
    /\ [](\A r \in DOMAIN state.rooms :
              state.rooms[r].max_players = 2 =>
                  /\ Len(state.rooms[r].players) <= 2
                  /\ state.rooms[r].status = InProgress => Len(state.rooms[r].players) = 2
                  /\ state.rooms[r].status = Waiting => Len(state.rooms[r].players) < 2)
    /\ [](\A c \in OpenedChains :
              Initialized(c) /\ room_state[c].max_players = 2 =>
                  /\ Len(room_state[c].players) <= 2
                  /\ room_state[c].status_str = InProgress => Len(room_state[c].players) = 2
                  /\ room_state[c].status_str = Waiting => Len(room_state[c].players) < 2)
    /\ [][/\ \A r \in (DOMAIN state.rooms) \cap (DOMAIN state'.rooms) :
                 state.rooms[r].max_players = 2 =>
                     SecondPlayerStarts(state.rooms[r].players, state.rooms[r].status,
                                        state'.rooms[r].players, state'.rooms[r].status)
          /\ \A c \in OpenedChains :
                 Initialized(c) /\ room_state[c].max_players = 2 =>
                     SecondPlayerStarts(room_state[c].players, room_state[c].status_str,
                                        room_state'[c].players, room_state'[c].status_str)
         ]_vars

\* a room of capacity 2 is full and InProgress on both sides, and the
\* JoinRoom of a third player has been executed by the hub and its
\* PlayerJoiningRoom by the room's chain
ThirdPlayerTurnedAway ==
    /\ AllDelivered
    /\ \E r \in DOMAIN state.rooms :
           LET room == state.rooms[r]
               shard == room_state[state.room_chains[r]]
           IN  /\ room.max_players = 2
               /\ Len(room.players) = 2 /\ room.status = InProgress
               /\ shard.room_id = r
               /\ Len(shard.players) = 2 /\ shard.status_str = InProgress
               /\ \E f \in state.processed_operations :
                      /\ f[1] = JoinRoomOp(r)
                      /\ ~Contains(room.players, f[2])
                      /\ ~Contains(shard.players, f[2])

\* C8: a JoinRoom for a room id that room_chains maps sends one
\* PlayerJoiningRoom (room id, joining player) to the mapped chain, whatever
\* the mirror did with the join; a JoinRoom for a room id that is not mapped
\* sends nothing.
JoinAlwaysForwarded ==
    [][\A f \in Recorded :
           f[1].kind = "JoinRoom" =>
               /\ room_state' = room_state
               /\ IF HasKey(state.room_chains, f[1].room_id)
                  THEN inbox' = [inbox EXCEPT ![state.room_chains[f[1].room_id]] =
                                    Append(@, [type |-> "PlayerJoiningRoom",
                                               room_id |-> f[1].room_id,
                                               player |-> f[2]])]
                  ELSE inbox' = inbox
      ]_vars

\* a PlayerJoiningRoom is in flight for a mapped room that has no mirror
\* record, next to the JoinRoom that sent it
ForwardedWithoutMirror ==
    \E r \in DOMAIN state.room_chains :
        /\ ~HasKey(state.rooms, r)
        /\ \E i \in 1..Len(inbox[state.room_chains[r]]) :
               LET m == inbox[state.room_chains[r]][i]
               IN  /\ m.type = "PlayerJoiningRoom"
                   /\ m.room_id = r
                   /\ \E f \in state.processed_operations :
                          f[1] = JoinRoomOp(r) /\ f[2] = m.player

\* C9: nothing reconciles the mirror with the room's chain: the chain's
\* decision on a PlayerJoiningRoom changes no hub state and sends the hub
\* nothing, and a LeaveRoom sends nothing and changes no room chain; so a
\* divergence of the two member lists outlives the delivery of every message.
NoReconciliation ==
    [][/\ \A c \in OpenedChains :
              (\E i \in 1..Len(inbox[c]) :
                   /\ inbox[c][i].type = "PlayerJoiningRoom"
                   /\ inbox'[c] = Without(inbox[c], i))
                  => /\ state' = state
                     /\ \A d \in (DOMAIN inbox) \ {c} : inbox'[d] = inbox[d]
       /\ \A f \in Recorded :
              f[1].kind = "LeaveRoom" => inbox' = inbox /\ room_state' = room_state
      ]_vars

\* every message has been delivered, and the chain of a room lists a member
\* that the hub's mirror of the room does not
MirrorAndShardDisagree ==
    /\ AllDelivered
    /\ \E r \in (DOMAIN state.rooms) \cap (DOMAIN state.room_chains) :
           LET shard == room_state[state.room_chains[r]]
           IN  /\ shard.room_id = r
               /\ \E i \in 1..Len(shard.players) :
                      ~Contains(state.rooms[r].players, shard.players[i])

\* C10: a MakeMove for a room id that room_chains maps sends one ProcessMove
\* (room id, player, move) to the mapped chain and changes nothing of the
\* hub's state but the ledger of fingerprints.
MoveOnlyForwarded ==
    [][\A f \in Recorded :
           f[1].kind = "MakeMove" /\ HasKey(state.room_chains, f[1].room_id) =>
               /\ state' = OnlyRecorded(f)
               /\ room_state' = room_state
               /\ inbox' = [inbox EXCEPT ![state.room_chains[f[1].room_id]] =
                                Append(@, [type |-> "ProcessMove",
                                           room_id |-> f[1].room_id,
                                           player |-> f[2],
                                           move_data |-> f[1].move_data])]
      ]_vars

\* a forwarded move of a member has been played on the room's chain while
\* the mirror, InProgress, still shows no board
MovePlayedOnShardOnly ==
    \E r \in (DOMAIN state.rooms) \cap (DOMAIN state.room_chains) :
        LET shard == room_state[state.room_chains[r]]
        IN  /\ state.rooms[r].status = InProgress
            /\ IsEmptyState(state.rooms[r].current_state)
            /\ shard.room_id = r
            /\ ~IsEmptyState(shard.current_state)
            /\ \E f \in state.processed_operations :
                   /\ f[1].kind = "MakeMove" /\ f[1].room_id = r
                   /\ Contains(state.rooms[r].players, f[2])

\* what a room chain in state rs does not accept: a message for another
\* room, a move while not InProgress or from a player not seated, a join
\* while not Waiting, by a seated player, or into a full room
Dropped(rs, m) ==
    \/ /\ m.type \in {"PlayerJoiningRoom", "ProcessMove"}
       /\ m.room_id # rs.room_id
    \/ /\ m.type = "ProcessMove"
       /\ (rs.status_str # InProgress \/ ~Contains(rs.players, m.player))
    \/ /\ m.type = "PlayerJoiningRoom"
       /\ ~(/\ rs.status_str = Waiting
            /\ ~Contains(rs.players, m.player)
            /\ Len(rs.players) < rs.max_players)

\* C11: a step in which a room chain executes a message it does not accept
\* (wrong room id, move from a non-member or while not InProgress, join that
\* fails the Waiting, duplicate or capacity check) changes nothing of the
\* chain's state and sends nothing: only the message leaves the inbox.
DroppedChangesNothing ==
    [][\A c \in OpenedChains :
           \A i \in 1..Len(inbox[c]) :
               inbox'[c] = Without(inbox[c], i) /\ Dropped(room_state[c], inbox[c][i])
                   => /\ room_state' = room_state
                      /\ state' = state
                      /\ \A d \in (DOMAIN inbox) \ {c} : inbox'[d] = inbox[d]
      ]_vars

\* a full room is InProgress on its chain, the move of a player who is not
\* seated there has been forwarded and delivered, and no move is logged
OutsiderMoveDropped ==
    /\ AllDelivered
    /\ \E r \in DOMAIN state.room_chains :
           LET shard == room_state[state.room_chains[r]]
           IN  /\ shard.room_id = r
               /\ shard.status_str = InProgress
               /\ shard.move_counter = 0
               /\ DOMAIN shard.moves = {}
               /\ \E f \in state.processed_operations :
                      /\ f[1].kind = "MakeMove" /\ f[1].room_id = r
                      /\ ~Contains(shard.players, f[2])

\* C12: an accepted ProcessMove in a SnakeLadders room with a die from 1 to
\* 6 leaves on the room chain the state that the snakes-and-ladders engine
\* makes of it, and finishes the room when the mover has reached 100.
TrackMovePlayedOnShard ==
    [][\A c \in OpenedChains :
           \A i \in 1..Len(inbox[c]) :
               LET m == inbox[c][i]
                   rs == room_state[c]
               IN  /\ inbox'[c] = Without(inbox[c], i)
                   /\ m.type = "ProcessMove"
                   /\ ~Dropped(rs, m)
                   /\ rs.game_type_str = "SnakeLadders"
                   /\ Len(m.move_data) = 1
                   /\ m.move_data[1] \in 1..6
                   => LET played == process_snakeladders_move(rs.current_state,
                                                              m.move_data, m.player)
                      IN  /\ room_state'[c].current_state = played
                          /\ check_snakeladders_win(played, m.player)
                                 => room_state'[c].status_str = Finished
      ]_vars

\* the 8 lines of the board: 3 rows, 3 columns, 2 diagonals, as <<row, column>>
BoardLines ==
    {{<<y, 1>>, <<y, 2>>, <<y, 3>>} : y \in 1..3}
    \cup {{<<1, x>>, <<2, x>>, <<3, x>>} : x \in 1..3}
    \cup {{<<1, 1>>, <<2, 2>>, <<3, 3>>}, {<<1, 3>>, <<2, 2>>, <<3, 1>>}}

\* some line of the board holds three times the same mark
ThreeInLine(board) ==
    /\ DOMAIN board = 1..3
    /\ \E line \in BoardLines, mark \in {"X", "O"} :
           \A cell \in line : board[cell[1]][cell[2]] = mark

\* C13: the step in which a room chain accepts a move that leaves a winning
\* board sets the chain's status to Finished and sends the hub one
\* GameEndedWithStats: winner the mover, one score per seated player in
\* seating order, 1 for the mover and 0 for the others.  No other step sends
\* one, and a Finished chain never changes again, so a chain sends it at
\* most once.
WinReportedOnce ==
    [][/\ \A c \in OpenedChains :
              \A i \in 1..Len(inbox[c]) :
                  LET m == inbox[c][i]
                      rs == room_state[c]
                  IN  /\ inbox'[c] = Without(inbox[c], i)
                      /\ m.type = "ProcessMove"
                      /\ ~Dropped(rs, m)
                      /\ ThreeInLine(room_state'[c].current_state)
                      => /\ room_state'[c].status_str = Finished
                         /\ Len(inbox'[MainChain]) = Len(inbox[MainChain]) + 1
                         /\ SubSeq(inbox'[MainChain], 1, Len(inbox[MainChain])) = inbox[MainChain]
                         /\ LET sent == inbox'[MainChain][Len(inbox'[MainChain])]
                            IN  sent = [type |-> "GameEndedWithStats",
                                        room_id |-> rs.room_id,
                                        winner |-> m.player,
                                        player_stats |->
                                            [j \in 1..Len(rs.players) |->
                                                <<rs.players[j],
                                                  IF rs.players[j] = m.player THEN 1 ELSE 0>>],
                                        game_type |-> rs.game_type_str,
                                        duration_seconds |-> sent.duration_seconds]
       /\ (\E k \in 1..Len(inbox'[MainChain]) :
               /\ inbox'[MainChain][k].type = "GameEndedWithStats"
               /\ k > Len(inbox[MainChain]))
              => \E c \in OpenedChains :
                     /\ room_state[c].status_str = InProgress
                     /\ room_state'[c].status_str = Finished
       /\ \A c \in OpenedChains :
              room_state[c].status_str = Finished => room_state'[c] = room_state[c]
      ]_vars

\* a room chain is Finished and its report, naming A the winner over B, is
\* on its way to the hub
WinReportInFlight ==
    \E c \in OpenedChains, k \in 1..Len(inbox[MainChain]) :
        /\ room_state[c].status_str = Finished
        /\ ThreeInLine(room_state[c].current_state)
        /\ inbox[MainChain][k].type = "GameEndedWithStats"
        /\ inbox[MainChain][k].room_id = room_state[c].room_id
        /\ inbox[MainChain][k].winner = "A"
        /\ inbox[MainChain][k].player_stats = <<<<"A", 1>>, <<"B", 0>>>>

\* the profile of a player before a step: the stored one, or the one that
\* the first action of the player creates
ProfileBefore(p) ==
    IF HasKey(state.users, p) THEN state.users[p]
    ELSE [level |-> 1, xp |-> 0,
          tictactoe_stats |-> [games_played |-> 0, wins |-> 0, losses |-> 0]]

\* level and xp after an award: whole levels are paid for at 1000 xp times
\* the level left, and less than one level's price remains
Leveled(level, xp, award, level2, xp2) ==
    /\ level2 >= level
    /\ xp2 >= 0
    /\ xp2 < level2 * 1000
    /\ xp + award = xp2 + 500 * (level2 * (level2 - 1) - level * (level - 1))

CloseRoomEffect ==
    [][\A f \in Recorded :
           f[1].kind = "CloseRoom"
           => LET r == f[1].room_id
              IN  /\ inbox' = inbox
                  /\ room_state' = room_state
                  /\ IF r \in DOMAIN state.rooms
                     THEN state' = [OnlyRecorded(f) EXCEPT
                                        !.rooms[r].status = Finished,
                                        !.active_room_ids =
                                            SelectSeq(@, LAMBDA id : id # r)]
                     ELSE state' = OnlyRecorded(f)
      ]_vars

\* a room has been closed by CloseRoom, and the report of its match has
\* created the profiles and the leaderboard
RoomClosedByOperation ==
    \E r \in DOMAIN state.rooms :
        /\ state.rooms[r].status = Finished
        /\ ~Contains(state.active_room_ids, r)
        /\ DOMAIN state.users = {"A", "B"}
        /\ HasKey(state.leaderboards, "tictactoe")
        /\ state.total_games = 1
        /\ \E f \in state.processed_operations :
               f[1].kind = "CloseRoom" /\ f[1].room_id = r

\* a CloseRoom has been recorded for a room id that the mirror does not hold
UnknownRoomClosed ==
    \E f \in state.processed_operations :
        f[1].kind = "CloseRoom" /\ ~HasKey(state.rooms, f[1].room_id)

\* C16: the step in which a room chain executes InitializeRoom sets the
\* chain's room id, game type and capacity from the message, seats the
\* creator alone, sets status Waiting, the empty board and move counter 0,
\* and appends one RoomChainReady (for that room, from that chain) to the
\* inbox of the chain named creator_chain in the message and to no other
\* inbox; the step in which the hub executes RoomChainReady leaves the hub's
\* state as it is.
InitializeThenReady ==
    [][/\ \A c \in OpenedChains : \A i \in 1..Len(inbox[c]) :
              LET m == inbox[c][i]
                  hub == m.creator_chain
              IN  /\ inbox'[c] = Without(inbox[c], i)
                  /\ m.type = "InitializeRoom"
                  => /\ room_state'[c].room_id = m.room_id
                     /\ room_state'[c].game_type_str = m.game_type
                     /\ room_state'[c].max_players = m.max_players
                     /\ room_state'[c].players = <<m.creator>>
                     /\ room_state'[c].status_str = Waiting
                     /\ IsEmptyState(room_state'[c].current_state)
                     /\ room_state'[c].move_counter = 0
                     /\ Len(inbox'[hub]) = Len(inbox[hub]) + 1
                     /\ SubSeq(inbox'[hub], 1, Len(inbox[hub])) = inbox[hub]
                     /\ inbox'[hub][Len(inbox'[hub])].type = "RoomChainReady"
                     /\ inbox'[hub][Len(inbox'[hub])].room_id = m.room_id
                     /\ inbox'[hub][Len(inbox'[hub])].room_chain_id = c
                     /\ \A d \in (DOMAIN inbox) \ {c, hub} : inbox'[d] = inbox[d]
                     /\ \A d \in OpenedChains \ {c} : room_state'[d] = room_state[d]
                     /\ state' = state
       /\ \A i \in 1..Len(inbox[MainChain]) :
              /\ inbox'[MainChain] = Without(inbox[MainChain], i)
              /\ inbox[MainChain][i].type = "RoomChainReady"
              => /\ state' = state
                 /\ room_state' = room_state
                 /\ \A d \in (DOMAIN inbox) \ {MainChain} : inbox'[d] = inbox[d]
      ]_vars

\* a room chain is initialized for a capacity-3 room with its creator seated,
\* and the hub has executed its RoomChainReady
ReadyDelivered ==
    \E r \in DOMAIN state.room_chains :
        LET c == state.room_chains[r]
        IN  /\ room_state[c].room_id = r
            /\ room_state[c].max_players = 3
            /\ Len(room_state[c].players) = 1
            /\ room_state[c].status_str = Waiting
            /\ inbox[c] = <<>>
            /\ inbox[MainChain] = <<>>

\* the tic-tac-toe rooms of the mirror
GridRooms == {r \in DOMAIN state.rooms : state.rooms[r].game_type = "TicTacToe"}

\* payloads that are not two comma-separated non-negative integers below 3:
\* a coordinate out of bounds, a part that is no number, one part, three parts
MalformedMoves == {<<3, 0>>, <<0, 3>>, <<-1, 1>>, <<1, -1>>, <<0>>, <<0, 0, 0>>}

\* C17 as stated: at every board a room reaches, a malformed or out-of-bounds
\* payload is returned unchanged by the hub's process_tictactoe_move and by
\* the room chain's.
MalformedMoveIgnored ==
    \A r \in GridRooms : \A m \in MalformedMoves, p \in Opponents :
        LET room == state.rooms[r]
        IN  /\ process_tictactoe_move(room.current_state, m, p, room.players)
                   = room.current_state
            /\ room_process_tictactoe_move(room.current_state, m, p, room.players)
                   = room.current_state

\* a board as the engines read it: the empty state is the board of empty cells
AsBoard(current_state) == IF IsEmptyState(current_state) THEN NewBoard ELSE current_state

\* the board after the move (x, y) of the player, as C18 describes it
Marked(board, x, y, player, players) ==
    [j \in 1..3 |-> [i \in 1..3 |->
        IF j = y + 1 /\ i = x + 1 /\ board[j][i] = "-"
        THEN (IF player = players[1] THEN "X" ELSE "O")
        ELSE board[j][i]]]

\* C18: at every board a room reaches, an in-bounds move (x, y) makes the
\* hub's and the room chain's process_tictactoe_move return the board with
\* X (mover first in the player list) or O (otherwise) in row y, column x if
\* that cell was empty, and every other cell, and an occupied cell, as it
\* was; and no step of the system changes a mark that a mirror board holds.
MarkOnlyEmptyCell ==
    /\ [](\A r \in GridRooms : \A x \in 0..2, y \in 0..2, p \in Opponents :
              LET room == state.rooms[r]
                  expected == Marked(AsBoard(room.current_state), x, y, p, room.players)
              IN  /\ process_tictactoe_move(room.current_state, <<x, y>>, p, room.players)
                         = expected
                  /\ room_process_tictactoe_move(room.current_state, <<x, y>>, p,
                                                 room.players) = expected)
    /\ [][\A r \in GridRooms : \A j \in 1..3, i \in 1..3 :
              /\ ~IsEmptyState(state.rooms[r].current_state)
              /\ state.rooms[r].current_state[j][i] # "-"
              /\ HasKey(state'.rooms, r)
              => state'.rooms[r].current_state[j][i] = state.rooms[r].current_state[j][i]
         ]_vars

\* a board is full and holds both marks: every further move meets a mark
FullBoardOfBothMarks ==
    \E r \in GridRooms :
        LET board == state.rooms[r].current_state
        IN  /\ ~IsEmptyState(board)
            /\ \A j \in 1..3, i \in 1..3 : board[j][i] # "-"
            /\ board[1][1] = "X"
            /\ board[2][2] = "O"

\* C19: at every board a room reaches (all boards over X, O and empty, and
\* the empty state), check_tictactoe_win is true exactly if one of the 8
\* lines holds three identical marks; it is false for the empty state.
WinIffThreeInLine ==
    \A r \in GridRooms :
        LET board == state.rooms[r].current_state
        IN  /\ check_tictactoe_win(board) <=> ThreeInLine(board)
            /\ IsEmptyState(board) => ~check_tictactoe_win(board)

\* the only line of a board is the diagonal from the top right corner
OnlyAntiDiagonalWins ==
    \E r \in GridRooms :
        LET board == state.rooms[r].current_state
        IN  /\ ~IsEmptyState(board)
            /\ \A line \in BoardLines :
                   (\E mark \in {"X", "O"} : \A cell \in line : board[cell[1]][cell[2]] = mark)
                   <=> line = {<<1, 3>>, <<2, 2>>, <<3, 1>>}
            /\ check_tictactoe_win(board)

\* the snakes-and-ladders rooms of the mirror
TrackRooms == {r \in DOMAIN state.rooms : state.rooms[r].game_type = "SnakeLadders"}

\* the 19 squares that relocate, as C20 lists them
Relocations ==
    (16 :> 6) @@ (47 :> 26) @@ (49 :> 11) @@ (56 :> 53) @@ (62 :> 19) @@ (64 :> 60)
    @@ (87 :> 24) @@ (93 :> 73) @@ (95 :> 75) @@ (98 :> 78)
    @@ (1 :> 38) @@ (4 :> 14) @@ (9 :> 31) @@ (21 :> 42) @@ (28 :> 84) @@ (36 :> 44)
    @@ (51 :> 67) @@ (71 :> 91) @@ (80 :> 100)

\* the position of a player in a track state: 0 until one is recorded
PositionOf(current_state, player) ==
    IF player \in DOMAIN current_state THEN current_state[player] ELSE 0

\* the die payloads: 0..7, and one that is no number
DiePayloads == {<<d>> : d \in (-1)..7}

\* C20: at every track state a room reaches, for every player and payload:
\* a die outside 1..6 returns the state unchanged; a die in 1..6 records for
\* the mover old + die, relocated if it is one of the 19 squares, or old if
\* that is past 100, and leaves the other players' records alone; every
\* recorded position is within 0..100; and check_snakeladders_win of a
\* player is true exactly if the player's position is at least 100.
TrackMoveByTable ==
    \A r \in TrackRooms :
        LET cs == state.rooms[r].current_state
        IN  /\ \A q \in DOMAIN cs : cs[q] \in 0..100
            /\ \A p \in Opponents :
                   /\ check_snakeladders_win(cs, p) <=> PositionOf(cs, p) >= 100
                   /\ \A m \in DiePayloads :
                          LET die == m[1]
                              old == PositionOf(cs, p)
                              landed == IF old + die \in DOMAIN Relocations
                                        THEN Relocations[old + die] ELSE old + die
                              after == process_snakeladders_move(cs, m, p)
                          IN  IF die \notin 1..6 THEN after = cs
                              ELSE /\ DOMAIN after = (DOMAIN cs) \cup {p}
                                   /\ after[p] = IF landed > 100 THEN old ELSE landed
                                   /\ \A q \in (DOMAIN cs) \ {p} : after[q] = cs[q]

\* a player has climbed the last ladder to 100 and has won; the other player
\* stands below 100
TrackFinished ==
    \E r \in TrackRooms :
        LET cs == state.rooms[r].current_state
        IN  /\ DOMAIN cs = {"A", "B"}
            /\ cs["A"] = 100
            /\ cs["B"] \in 80..99
            /\ check_snakeladders_win(cs, "A")
            /\ ~check_snakeladders_win(cs, "B")

\* the experience a profile has been awarded in all: its experience and the
\* thresholds 1000, 2000, ... of the levels it has passed through
Awarded(profile) == profile.xp + 500 * profile.level * (profile.level - 1)

\* level and experience of the profile of an address before a step
LevelBefore(address) ==
    IF HasKey(state.users, address)
    THEN [level |-> state.users[address].level, xp |-> state.users[address].xp]
    ELSE [level |-> 1, xp |-> 0]

\* the award of a submitted result as C21 states it
ClaimedAward(operation) ==
    CASE operation.kind = "SubmitSnakeScore" -> operation.score \div 10
      [] operation.kind = "SubmitTicTacToeResult" -> IF operation.won THEN 50 ELSE 10
      [] operation.kind = "SubmitSnakeLaddersResult" -> IF operation.won THEN 100 ELSE 20
      [] operation.kind = "SubmitUnoResult" -> IF operation.won THEN 60 ELSE 15

\* C21 as stated, on the submit path: the step that records a result
\* submitted in Solo or Multiplayer mode awards the submitter 50 or 10
\* (grid game), 100 or 20 (track game), 60 or 15 (card game), or score / 10
\* (score game) experience.
SubmitAwards ==
    [][\A f \in Recorded :
           /\ f[1].kind \in ResultKinds \cup {"SubmitSnakeScore"}
           /\ f[1].game_mode \in {"Solo", "Multiplayer"}
           => /\ HasKey(state'.users, f[2])
              /\ Awarded(state'.users[f[2]])
                     = Awarded(LevelBefore(f[2])) + ClaimedAward(f[1])
      ]_vars

\* C22: the step that records a counted track-game win (+100) for a profile
\* at level 1 with experience 950 leaves it at level 2 with experience 50,
\* and the step that records a counted snake score of 25000 (+2500) for a
\* profile at level 1 with experience 0 leaves it at level 2 with experience
\* 1500: the second level costs 2000.
LevelingExamples ==
    [][\A f \in Recorded :
           LET old == LevelBefore(f[2])
           IN  /\ f[1].kind = "SubmitSnakeLaddersResult" /\ f[1].won
                  /\ Counted(f[1].game_mode) /\ old.level = 1 /\ old.xp = 950
                  => state'.users[f[2]].level = 2 /\ state'.users[f[2]].xp = 50
               /\ f[1].kind = "SubmitSnakeScore" /\ f[1].score = 25000
                  /\ Counted(f[1].game_mode) /\ old.level = 1 /\ old.xp = 0
                  => state'.users[f[2]].level = 2 /\ state'.users[f[2]].xp = 1500
      ]_vars

\* C22 as stated: the second update ends at level 3 with experience 500.
LevelingExamplesAsStated ==
    [][\A f \in Recorded :
           LET old == LevelBefore(f[2])
           IN  /\ f[1].kind = "SubmitSnakeLaddersResult" /\ f[1].won
                  /\ Counted(f[1].game_mode) /\ old.level = 1 /\ old.xp = 950
                  => state'.users[f[2]].level = 2 /\ state'.users[f[2]].xp = 50
               /\ f[1].kind = "SubmitSnakeScore" /\ f[1].score = 25000
                  /\ Counted(f[1].game_mode) /\ old.level = 1 /\ old.xp = 0
                  => state'.users[f[2]].level = 3 /\ state'.users[f[2]].xp = 500
      ]_vars

\* A went from 950 to level 2 with 50 by a track-game win, B from 0 to level
\* 2 with 1500 by one snake score
BothExamplesPlayed ==
    /\ DOMAIN state.users = {"A", "B"}
    /\ state.users["A"].level = 2
    /\ state.users["A"].xp = 50
    /\ state.users["A"].snake_stats.high_score = 9500
    /\ state.users["A"].snakeladders_stats.wins = 1
    /\ state.users["B"].level = 2
    /\ state.users["B"].xp = 1500
    /\ state.users["B"].snake_stats.games_played = 1

\* C23: every stored profile has level >= 1 and experience below
\* level * 1000; and in the step that records a counted result the
\* submitter's level does not decrease and the award is conserved:
\* experience before + award = experience after + the thresholds
\* level * 1000 of the levels passed through.  No step lowers a level.
LevelingInvariant ==
    /\ [](\A a \in DOMAIN state.users :
              /\ state.users[a].level >= 1
              /\ state.users[a].xp >= 0
              /\ state.users[a].xp < state.users[a].level * 1000)
    /\ [][/\ \A a \in DOMAIN state.users :
                 /\ HasKey(state'.users, a)
                 /\ state'.users[a].level >= state.users[a].level
          /\ \A f \in Recorded :
                 /\ f[1].kind \in ResultKinds \cup {"SubmitSnakeScore"}
                 /\ Counted(f[1].game_mode)
                 => LET old == LevelBefore(f[2])
                        new == state'.users[f[2]]
                        award == CASE f[1].kind = "SubmitSnakeScore" -> f[1].score \div 10
                                   [] f[1].kind = "SubmitTicTacToeResult" ->
                                          IF f[1].won THEN 50 ELSE 10
                                   [] f[1].kind = "SubmitSnakeLaddersResult" ->
                                          IF f[1].won THEN 100 ELSE 20
                                   [] f[1].kind = "SubmitUnoResult" ->
                                          IF f[1].won THEN 80 ELSE 15
                    IN  old.xp + award
                            = new.xp + 1000 * ((new.level * (new.level - 1)) \div 2
                                               - (old.level * (old.level - 1)) \div 2)
         ]_vars

\* one snake score of 30000 has taken a fresh profile through levels 1 and 2
TwoLevelsInOneUpdate ==
    \E a \in DOMAIN state.users :
        /\ state.users[a].level = 3
        /\ state.users[a].xp = 0
        /\ state.users[a].snake_stats.games_played = 1
        /\ state.users[a].snake_stats.total_score = 30000
        /\ state.total_games = 1

\* C24: every stored leaderboard has at most 100 entries and at most one
\* entry per player, its scores do not increase down the list, and the entry
\* at position i (counted from 1) carries rank i.
LeaderboardWellFormed ==
    \A key \in DOMAIN state.leaderboards :
        LET board == state.leaderboards[key]
        IN  /\ Len(board) <= 100
            /\ \A i \in 1..Len(board), j \in 1..Len(board) :
                   board[i].player_id = board[j].player_id => i = j
            /\ \A i \in 1..(Len(board) - 1) : board[i].score >= board[i + 1].score
            /\ \A i \in 1..Len(board) : board[i].rank = i

\* 101 players have submitted, the list holds 100 of them, and its first
\* score is above its last
FullLeaderboard ==
    /\ state.total_players = 101
    /\ HasKey(state.leaderboards, "snake_global")
    /\ Len(state.leaderboards["snake_global"]) = 100
    /\ state.leaderboards["snake_global"][1].score
           > state.leaderboards["snake_global"][100].score

\* the snake leaderboard of a hub state
SnakeBoard(s) == GetOrDefault(s.leaderboards, "snake_global")

ListedIn(board) == {board[i].player_id : i \in 1..Len(board)}

ScoreIn(board, player) ==
    board[CHOOSE i \in 1..Len(board) : board[i].player_id = player].score

\* the number of the player of an address
PlayerNumber(address) == CHOOSE k \in 1..(MaxBoardPlayers + 1) : BoardPlayer(k) = address

\* what C25 says of a submission apart from the choice among ties: the other
\* players keep their scores; a listed submitter stays listed and gets the
\* new score only if it is strictly greater; an unlisted submitter is
\* inserted into a list of fewer than 100; and of a full list and an
\* unlisted submitter one player is dropped, one of the lowest score
ReplaceInsertDrop(old, new, owner, score, IsDropped(_, _, _)) ==
    LET candidates == ListedIn(old) \cup {owner}
        offered == [p \in candidates |-> IF p = owner THEN score ELSE ScoreIn(old, p)]
        lowest == {p \in candidates : \A q \in candidates : offered[p] <= offered[q]}
        dropped == candidates \ ListedIn(new)
    IN  /\ \A p \in (ListedIn(old) \cap ListedIn(new)) \ {owner} :
               ScoreIn(new, p) = ScoreIn(old, p)
        /\ owner \in ListedIn(old)
           => /\ ListedIn(new) = ListedIn(old)
              /\ ScoreIn(new, owner) = IF score > ScoreIn(old, owner)
                                       THEN score ELSE ScoreIn(old, owner)
        /\ owner \notin ListedIn(old) /\ Len(old) < 100
           => /\ ListedIn(new) = candidates
              /\ ScoreIn(new, owner) = score
        /\ owner \notin ListedIn(old) /\ Len(old) = 100
           => /\ Cardinality(dropped) = 1
              /\ dropped \subseteq lowest
              /\ owner \in ListedIn(new) => ScoreIn(new, owner) = score
              /\ \A d \in dropped : IsDropped(d, lowest, old)

\* among the players of the lowest score: the submitter, or else the player
\* that stood last in the list
LastOfLowest(d, lowest, old) ==
    \A f \in Recorded :
        d = IF f[2] \in lowest THEN f[2] ELSE old[Len(old)].player_id

\* among the players of the lowest score: the one inserted last.  Players
\* are inserted in the order of their numbers as long as none was dropped.
LastInsertedOfLowest(d, lowest, old) ==
    Len(old) = state.total_players
    => \A p \in lowest : PlayerNumber(p) <= PlayerNumber(d)

\* C25: the step that records a snake score replaces the entry of a listed
\* submitter only by a strictly greater score, inserts an unlisted
\* submitter, changes no other score, and drops from 101 players one of the
\* lowest score: the submitter if its score is the lowest, otherwise the
\* player that stood last in the list before the step.
LeaderboardUpdate ==
    [][\A f \in Recorded :
           f[1].kind = "SubmitSnakeScore"
           => ReplaceInsertDrop(SnakeBoard(state), SnakeBoard(state'), f[2], f[1].score,
                                LastOfLowest)
      ]_vars

\* C25 as stated: the player dropped is the one inserted last among the
\* players of the lowest score.
LeaderboardUpdateAsStated ==
    [][\A f \in Recorded :
           f[1].kind = "SubmitSnakeScore"
           => ReplaceInsertDrop(SnakeBoard(state), SnakeBoard(state'), f[2], f[1].score,
                                LastInsertedOfLowest)
      ]_vars

\* the first player raised its score from 3 to 5, the score of the players
\* 2 to 100, and was dropped for the 101st player, who scored 10
RaisedPlayerDropped ==
    /\ state.total_players = 101
    /\ state.users[BoardPlayer(1)].snake_stats.games_played = 2
    /\ state.users[BoardPlayer(1)].snake_stats.total_score = 8
    /\ BoardPlayer(1) \notin ListedIn(SnakeBoard(state))
    /\ BoardPlayer(100) \in ListedIn(SnakeBoard(state))
    /\ SnakeBoard(state)[1].player_id = BoardPlayer(101)
    /\ SnakeBoard(state)[1].score = 10

\* the game type of a submitted result
GameOf(kind) ==
    CASE kind = "SubmitSnakeScore" -> "Snake"
      [] kind = "SubmitTicTacToeResult" -> "TicTacToe"
      [] kind = "SubmitSnakeLaddersResult" -> "SnakeLadders"
      [] kind = "SubmitUnoResult" -> "Uno"

\* C26 as stated: a result submitted in Solo or Multiplayer mode is recorded
\* on the leaderboard that the query of its game type reads, which is the
\* one GameEndedWithStats writes (the lower-case game type): after the step
\* the query lists the submitter, and no other leaderboard exists.
OneLeaderboardPerGame ==
    [][\A f \in Recorded :
           /\ f[1].kind \in ResultKinds \cup {"SubmitSnakeScore"}
           /\ f[1].game_mode \in {"Solo", "Multiplayer"}
           => /\ \E i \in 1..Len(leaderboard(state', GameOf(f[1].kind), {100})) :
                     leaderboard(state', GameOf(f[1].kind), {100})[i].player_id = f[2]
              /\ DOMAIN state'.leaderboards
                     \subseteq {ToLowercase(game_type) : game_type \in GameTypes}
      ]_vars

\* the AdvanceTournament fingerprints recorded for a match of a tournament
Reports(t, match_id) ==
    {f \in state.processed_operations :
        /\ f[1].kind = "AdvanceTournament"
        /\ f[1].tournament_id = t
        /\ f[1].match_id = match_id}

\* C27 as stated: StartTournament of the participants [A, B, C, D] gives the
\* brackets [(A, B), (C, D)]; when winner A was reported for A-B, the step
\* that records winner C for the remaining match C-D leaves the tournament
\* InProgress in round 2 with one bracket of A and C; and the step that
\* records the winner of the single match of a 2-participant tournament
\* leaves it Completed.
TournamentAdvances ==
    [][\A f \in Recorded :
           LET t == f[1].tournament_id
               before == state.tournaments[t]
               after == state'.tournaments[t]
           IN  /\ f[1].kind = "StartTournament"
                  /\ HasKey(state.tournaments, t)
                  /\ before.status = Registration
                  /\ before.participants = <<"A", "B", "C", "D">>
                  => after.brackets = <<[player1 |-> "A", player2 |-> "B"],
                                        [player1 |-> "C", player2 |-> "D"]>>
               /\ f[1].kind = "AdvanceTournament"
                  /\ HasKey(state.tournaments, t)
                  /\ before.status = InProgress
                  /\ before.participants = <<"A", "B", "C", "D">>
                  /\ before.current_round = 1
                  /\ before.brackets = <<[player1 |-> "C", player2 |-> "D"]>>
                  /\ (\A g \in Reports(t, "A-B") : g[1].winner = "A")
                  /\ f[1].match_id = "C-D"
                  /\ f[1].winner = "C"
                  => /\ after.status = InProgress
                     /\ after.current_round = 2
                     /\ after.brackets \in {<<[player1 |-> "A", player2 |-> "C"]>>,
                                            <<[player1 |-> "C", player2 |-> "A"]>>}
               /\ f[1].kind = "AdvanceTournament"
                  /\ HasKey(state.tournaments, t)
                  /\ before.status = InProgress
                  /\ Len(before.participants) = 2
                  /\ Len(before.brackets) = 1
                  /\ f[1].match_id = MatchKey(before.brackets[1])
                  => after.status = Completed
      ]_vars

\* the parts of C27 that do not concern the second round
TournamentStartsAndEnds ==
    [][\A f \in Recorded :
           LET t == f[1].tournament_id
               before == state.tournaments[t]
               after == state'.tournaments[t]
           IN  /\ f[1].kind = "StartTournament"
                  /\ HasKey(state.tournaments, t)
                  /\ before.status = Registration
                  /\ before.participants = <<"A", "B", "C", "D">>
                  => after.brackets = <<[player1 |-> "A", player2 |-> "B"],
                                        [player1 |-> "C", player2 |-> "D"]>>
               /\ f[1].kind = "AdvanceTournament"
                  /\ HasKey(state.tournaments, t)
                  /\ before.status = InProgress
                  /\ Len(before.participants) = 2
                  /\ Len(before.brackets) = 1
                  /\ f[1].match_id = MatchKey(before.brackets[1])
                  => after.status = Completed
      ]_vars

\* no tournament ever reaches a second round
NoSecondRound == \A t \in DOMAIN state.tournaments : state.tournaments[t].current_round <= 1

\* C28: the step that records a JoinTournament appends the submitter to the
\* participants if the tournament is in Registration, the submitter is not
\* a participant and there are fewer than max_players participants, and
\* leaves the tournament unchanged otherwise; in every state the
\* participants are pairwise distinct and at most max_players; and no step
\* changes the participants of a tournament that has left Registration.
JoinOnlyInRegistration ==
    /\ [](\A t \in DOMAIN state.tournaments :
              LET participants == state.tournaments[t].participants
              IN  /\ \A i \in 1..Len(participants), j \in 1..Len(participants) :
                         participants[i] = participants[j] => i = j
                  /\ Len(participants) <= state.tournaments[t].max_players)
    /\ [][/\ \A t \in DOMAIN state.tournaments :
                 state.tournaments[t].status # Registration
                 => /\ HasKey(state'.tournaments, t)
                    /\ state'.tournaments[t].participants
                           = state.tournaments[t].participants
          /\ \A f \in Recorded :
                 f[1].kind = "JoinTournament" /\ HasKey(state.tournaments, f[1].tournament_id)
                 => LET before == state.tournaments[f[1].tournament_id]
                        after == state'.tournaments[f[1].tournament_id]
                        listed == \E i \in 1..Len(before.participants) :
                                      before.participants[i] = f[2]
                    IN  IF /\ before.status = Registration
                           /\ ~listed
                           /\ Len(before.participants) < before.max_players
                        THEN after = [before EXCEPT
                                         !.participants = Append(before.participants, f[2])]
                        ELSE after = before
         ]_vars

\* a tournament for 2 is full and in progress, and A, a participant, has
\* submitted JoinTournament twice and a third entrant once
JoinsTurnedAway ==
    \E t \in DOMAIN state.tournaments :
        /\ state.tournaments[t].max_players = 2
        /\ Len(state.tournaments[t].participants) = 2
        /\ state.tournaments[t].participants[1] = "A"
        /\ state.tournaments[t].status = InProgress
        /\ Cardinality({f \in state.processed_operations :
                            f[1].kind = "JoinTournament" /\ f[2] = "A"}) = 2
        /\ Cardinality({f[2] : f \in {g \in state.processed_operations :
                                          g[1].kind = "JoinTournament"}}) = 3

\* C29: the step that records a StartTournament for a tournament in
\* Registration with at least 2 participants sets status InProgress, round
\* 1 and the brackets (p1, p2), (p3, p4), ... of the participants in order,
\* floor(n / 2) of them, so that the last of an odd number of participants
\* is in no bracket; for any other tournament the step changes nothing but
\* the recorded fingerprint.
StartPairsInOrder ==
    [][\A f \in Recorded :
           f[1].kind = "StartTournament"
           => LET t == f[1].tournament_id
                  before == state.tournaments[t]
                  after == state'.tournaments[t]
                  n == Len(before.participants)
              IN  IF /\ HasKey(state.tournaments, t)
                     /\ before.status = Registration
                     /\ n >= 2
                  THEN /\ after.status = InProgress
                       /\ after.current_round = 1
                       /\ Len(after.brackets) = n \div 2
                       /\ \A k \in 1..(n \div 2) :
                              /\ after.brackets[k].player1 = before.participants[2 * k - 1]
                              /\ after.brackets[k].player2 = before.participants[2 * k]
                       /\ n % 2 = 1
                          => \A k \in 1..Len(after.brackets) :
                                 /\ after.brackets[k].player1 # before.participants[n]
                                 /\ after.brackets[k].player2 # before.participants[n]
                       /\ after.participants = before.participants
                       /\ state' = [OnlyRecorded(f) EXCEPT !.tournaments[t] = after]
                  ELSE state' = OnlyRecorded(f)
      ]_vars

\* a tournament of three participants is in round 1 with one bracket
OddOneOut ==
    \E t \in DOMAIN state.tournaments :
        /\ Len(state.tournaments[t].participants) = 3
        /\ state.tournaments[t].status = InProgress
        /\ state.tournaments[t].current_round = 1
        /\ Len(state.tournaments[t].brackets) = 1
        /\ state.tournaments[t].brackets[1].player1 = state.tournaments[t].participants[1]
        /\ state.tournaments[t].brackets[1].player2 = state.tournaments[t].participants[2]

\* the addresses in the friend list of holder, in order
FriendsOf(holder) ==
    LET list == GetOrDefault(state.friends, holder)
    IN  [i \in 1..Len(list) |-> list[i].address]

IsFriendOf(holder, address) ==
    \E i \in 1..Len(FriendsOf(holder)) : FriendsOf(holder)[i] = address

\* C30: in every state, an address is in the friend list of another if and
\* only if that one is in its own, and no friend list holds an address
\* twice.
FriendsSymmetric ==
    /\ \A a \in Addresses, b \in Addresses : IsFriendOf(a, b) <=> IsFriendOf(b, a)
    /\ \A a \in Addresses :
           \A i \in 1..Len(FriendsOf(a)), j \in 1..Len(FriendsOf(a)) :
               FriendsOf(a)[i] = FriendsOf(a)[j] => i = j

\* A and B are friends again: B asked, A accepted, A removed B, and B
\* accepted A without a request
FriendsAgain ==
    /\ FriendsOf("A") = <<"B">>
    /\ FriendsOf("B") = <<"A">>
    /\ \E f \in state.processed_operations :
           f[1].kind = "SendFriendRequest" /\ f[2] = "B" /\ f[1].to_address = "A"
    /\ \E f \in state.processed_operations :
           f[1].kind = "AcceptFriendRequest" /\ f[2] = "A" /\ f[1].from_address = "B"
    /\ \E f \in state.processed_operations :
           f[1].kind = "RemoveFriend" /\ f[2] = "A" /\ f[1].friend_address = "B"
    /\ \E f \in state.processed_operations :
           f[1].kind = "AcceptFriendRequest" /\ f[2] = "B" /\ f[1].from_address = "A"

\* the senders of the requests pending at recipient, in order, in state s
PendingAt(s, recipient) ==
    LET requests == GetOrDefault(s.friend_requests, recipient)
    IN  [i \in 1..Len(requests) |-> requests[i].from_address]

IsPendingAt(s, recipient, sender) ==
    \E i \in 1..Len(PendingAt(s, recipient)) : PendingAt(s, recipient)[i] = sender

HasFriend(s, holder, address) ==
    \E i \in 1..Len(GetOrDefault(s.friends, holder)) :
        GetOrDefault(s.friends, holder)[i].address = address

\* the step that records an accept leaves no request of the sender pending
\* at the recipient and both friend edges in place; the step that records a
\* reject removes the requests of that sender alone and changes no friend
\* list; no recipient holds two requests of one sender
AcceptAndRejectEffects ==
    /\ [](\A r \in Addresses :
              \A i \in 1..Len(PendingAt(state, r)), j \in 1..Len(PendingAt(state, r)) :
                  PendingAt(state, r)[i] = PendingAt(state, r)[j] => i = j)
    /\ [][\A f \in Recorded :
              /\ f[1].kind = "AcceptFriendRequest"
                 => /\ ~IsPendingAt(state', f[2], f[1].from_address)
                    /\ \A other \in Addresses \ {f[1].from_address} :
                           IsPendingAt(state', f[2], other) <=> IsPendingAt(state, f[2], other)
                    /\ HasFriend(state', f[2], f[1].from_address)
                    /\ HasFriend(state', f[1].from_address, f[2])
              /\ f[1].kind = "RejectFriendRequest"
                 => /\ ~IsPendingAt(state', f[2], f[1].from_address)
                    /\ \A other \in Addresses \ {f[1].from_address} :
                           IsPendingAt(state', f[2], other) <=> IsPendingAt(state, f[2], other)
                    /\ state'.friends = state.friends
         ]_vars

\* C31: accept removes the originating request and inserts both friend
\* edges, reject removes only the request and changes no friend list, a
\* recipient holds at most one request per sender, and every step that
\* creates a friend edge records an accept, by one end of the edge, of a
\* request of the other end that was pending.
FriendEdgesFromRequests ==
    /\ AcceptAndRejectEffects
    /\ [][\A a \in Addresses, b \in Addresses :
              HasFriend(state', a, b) /\ ~HasFriend(state, a, b)
              => \E f \in Recorded :
                     /\ f[1].kind = "AcceptFriendRequest"
                     /\ \/ f[2] = a /\ f[1].from_address = b
                        \/ f[2] = b /\ f[1].from_address = a
                     /\ IsPendingAt(state, f[2], f[1].from_address)
         ]_vars

\* C32: the step that records an AcceptChallenge sets the challenge to
\* Accepted if the submitter is its opponent, it is Pending and the clock
\* reading of the step is strictly before expires_at, and changes nothing
\* but the recorded fingerprint otherwise; expires_at is created_at plus 24
\* hours; no step changes a challenge that is not Pending.
AcceptBeforeExpiry ==
    /\ [](\A c \in DOMAIN state.challenges :
              /\ state.challenges[c].expires_at[1]
                     = state.challenges[c].created_at[1] + 24 * 60 * 60
              /\ state.challenges[c].expires_at[2] = state.challenges[c].created_at[2])
    /\ [][/\ \A c \in DOMAIN state.challenges :
                 state.challenges[c].status # Pending
                 => /\ HasKey(state'.challenges, c)
                    /\ state'.challenges[c] = state.challenges[c]
          /\ \A f \in Recorded :
                 f[1].kind = "AcceptChallenge"
                 => LET c == f[1].challenge_id
                        timestamp == ChallengeTimes[f[3]]
                    IN  IF /\ HasKey(state.challenges, c)
                           /\ state.challenges[c].opponent = f[2]
                           /\ state.challenges[c].status = Pending
                           /\ Before(timestamp, state.challenges[c].expires_at)
                        THEN state' = [OnlyRecorded(f) EXCEPT
                                          !.challenges[c].status = Accepted]
                        ELSE state' = OnlyRecorded(f)
         ]_vars

\* B's challenge is still Pending after B accepted it at its expiry and
\* one microsecond later, and A accepted it in time
LateAcceptRejected ==
    \E c \in DOMAIN state.challenges :
        /\ state.challenges[c].opponent = "B"
        /\ state.challenges[c].status = Pending
        /\ <<AcceptChallengeOp(c), "B", 3>> \in state.processed_operations
        /\ <<AcceptChallengeOp(c), "B", 4>> \in state.processed_operations
        /\ <<AcceptChallengeOp(c), "A", 1>> \in state.processed_operations

\* C33: in every state each id of active_room_ids occurs once and names a
\* room of the mirror that is not Finished; the step that records a
\* CloseRoom, and the step in which the hub executes a report and drops the
\* shard mapping of a room, leave the room out of active_room_ids.  (A room
\* won on the hub, ended by GameEnded or emptied by LeaveRoom is Finished
\* or gone, so the first part speaks for it.)
ActiveRoomsAreLive ==
    /\ [](/\ \A i \in 1..Len(state.active_room_ids), j \in 1..Len(state.active_room_ids) :
                 state.active_room_ids[i] = state.active_room_ids[j] => i = j
          /\ \A i \in 1..Len(state.active_room_ids) :
                 /\ HasKey(state.rooms, state.active_room_ids[i])
                 /\ state.rooms[state.active_room_ids[i]].status # Finished)
    /\ [][/\ \A f \in Recorded :
                 f[1].kind = "CloseRoom" => ~Contains(state'.active_room_ids, f[1].room_id)
          /\ \A r \in (DOMAIN state.room_chains) \ (DOMAIN state'.room_chains) :
                 ~Contains(state'.active_room_ids, r)
         ]_vars

\* the room whose match was reported has then been won on the hub, by moves
\* submitted after its shard mapping was removed, and is not listed
WonOnHubUnlisted ==
    \E r \in DOMAIN state.rooms :
        /\ ~HasKey(state.room_chains, r)
        /\ state.total_games >= 1
        /\ state.rooms[r].status = Finished
        /\ state.rooms[r].winner # None
        /\ check_tictactoe_win(state.rooms[r].current_state)
        /\ state.active_room_ids = <<>>

\* C34: the step in which the hub executes GameEndedWithStats for a room of
\* the mirror leaves the room Finished with the reported winner.
ReportFinishesMirror ==
    [][\A i \in 1..Len(inbox[MainChain]) :
           LET m == inbox[MainChain][i]
           IN  /\ inbox'[MainChain] = Without(inbox[MainChain], i)
               /\ m.type = "GameEndedWithStats"
               /\ HasKey(state.rooms, m.room_id)
               => /\ HasKey(state'.rooms, m.room_id)
                  /\ state'.rooms[m.room_id].status = Finished
                  /\ state'.rooms[m.room_id].winner = m.winner
      ]_vars

\* C35: no step that records a MakeMove changes the board, the status or
\* the winner of a room of the mirror (every room is created by CreateRoom).
MovesLeaveMirrorAlone ==
    [][\A f \in Recorded :
           f[1].kind = "MakeMove"
           => \A r \in DOMAIN state.rooms :
                  /\ HasKey(state'.rooms, r)
                  /\ state'.rooms[r].current_state = state.rooms[r].current_state
                  /\ state'.rooms[r].status = state.rooms[r].status
                  /\ state'.rooms[r].winner = state.rooms[r].winner
      ]_vars

\* C39: once the hub has executed the report of the one match, no step
\* changes a profile, a leaderboard or total_games: a second execution of
\* the report changes none of them.
ReportAppliedAtMostOnce ==
    [][state.total_games >= 1
       => /\ state'.users = state.users
          /\ state'.leaderboards = state.leaderboards
          /\ state'.total_games = state.total_games
      ]_vars

\* C40: once the step that records CloseRoom for a room of the mirror is
\* taken, no step changes a profile, a leaderboard or total_games.
NoStatsAfterClose ==
    [][(\E f \in state.processed_operations :
            /\ f[1].kind = "CloseRoom"
            /\ HasKey(state.rooms, f[1].room_id)
            /\ state.rooms[f[1].room_id].status = Finished)
       => /\ state'.users = state.users
          /\ state'.leaderboards = state.leaderboards
          /\ state'.total_games = state.total_games
      ]_vars

\* no message that names room r waits in any inbox
NothingInFlightFor(r) ==
    \A c \in DOMAIN inbox :
        \A i \in 1..Len(inbox[c]) : inbox[c][i].room_id # r

\* C36: with messages executed in the order sent and no LeaveRoom or
\* CloseRoom, whenever no message for a room is in flight and its room
\* chain is not Finished, the room chain and the mirror hold the same
\* players in the same order and the same status.
MirrorMatchesShard ==
    \A r \in DOMAIN state.room_chains :
        LET c == state.room_chains[r]
        IN  NothingInFlightFor(r) /\ room_state[c].status_str # Finished
            => /\ HasKey(state.rooms, r)
               /\ room_state[c].players = state.rooms[r].players
               /\ room_state[c].status_str = state.rooms[r].status

\* a room of three is full on both sides, in the order C, B of the joins,
\* with nothing in flight
ThreeSeatedInOrder ==
    \E r \in DOMAIN state.room_chains :
        /\ NothingInFlightFor(r)
        /\ state.rooms[r].players = <<"A", "C", "B">>
        /\ room_state[state.room_chains[r]].players = <<"A", "C", "B">>
        /\ room_state[state.room_chains[r]].status_str = InProgress

\* the number of cells of the board that hold the mark
MarksOf(board, mark) ==
    IF IsEmptyState(board) THEN 0
    ELSE Cardinality({cell \in (1..3) \X (1..3) : board[cell[2]][cell[1]] = mark})

\* C37: on every room chain the numbers of X and of O on the board differ
\* by at most one.
MarksAlternate ==
    \A c \in OpenedChains :
        LET marks_x == MarksOf(room_state[c].current_state, "X")
            marks_o == MarksOf(room_state[c].current_state, "O")
        IN  marks_x - marks_o \in {-1, 0, 1}

\* C38: when every message is delivered (the inbox of the hub is empty
\* again and again, the steps of the room chain and of the players are
\* fair), a room chain that is InProgress is eventually Finished.
GridMatchEnds ==
    []<>(inbox[MainChain] = <<>>)
    => ((\E c \in OpenedChains : room_state[c].status_str = InProgress)
            ~> (\E c \in OpenedChains : room_state[c].status_str = Finished))

\* a room chain is InProgress on a full board without a line of three
DrawnBoardInProgress ==
    \E c \in OpenedChains :
        /\ room_state[c].status_str = InProgress
        /\ MarksOf(room_state[c].current_state, "X")
               + MarksOf(room_state[c].current_state, "O") = 9
        /\ ~check_tictactoe_win(room_state[c].current_state)

====
